---------------------------- MODULE Spec2Model ----------------------------
(***************************************************************************)
(* The citation network analysis engine of aricca_x                        *)
(* (src/aricca_x/citation_graph_analyzer): CitationExtractor,              *)
(* GraphBuilder and CitationGraphAnalyzer.analyze.                         *)
(*                                                                         *)
(* A Python str is a sequence of one-character strings, so that the        *)
(* regular expressions, split, strip, lower, int and str of the source     *)
(* are computed character by character.  A float of the source is the     *)
(* exact fraction [num, den] of the same arithmetic.                       *)
(***************************************************************************)
EXTENDS Integers, Sequences, FiniteSets, TLC

(***************************************************************************)
(* Characters and the str methods the source uses.                         *)
(***************************************************************************)
DigitChars == <<"0","1","2","3","4","5","6","7","8","9">>

UpperChars == <<"A","B","C","D","E","F","G","H","I","J","K","L","M","N","O","P","Q","R","S","T","U","V","W","X","Y","Z">>

LowerChars == <<"a","b","c","d","e","f","g","h","i","j","k","l","m","n","o","p","q","r","s","t","u","v","w","x","y","z">>

IsIn(c, chars) == \E k \in 1..Len(chars) : chars[k] = c

IndexIn(c, chars) == CHOOSE k \in 1..Len(chars) : chars[k] = c

\* The character classes of the patterns: \d, [A-Z], [a-z], \s and [.!?].
InClass(cls, c) ==
    CASE cls = "digit"    -> IsIn(c, DigitChars)
      [] cls = "upper"    -> IsIn(c, UpperChars)
      [] cls = "lower"    -> IsIn(c, LowerChars)
      [] cls = "space"    -> c \in {" ", "\t", "\n"}
      [] cls = "terminal" -> c \in {".", "!", "?"}

MinOf(S) == CHOOSE x \in S : \A y \in S : x <= y

MaxOf(S) == CHOOSE x \in S : \A y \in S : x >= y

\* The first index at or after p whose character is not in the class
\* (Len(s) + 1 when the run reaches the end): a greedy cls*.
SpanEnd(s, p, cls) ==
    LET stop == {k \in p..Len(s) : ~InClass(cls, s[k])}
    IN  IF stop = {} THEN Len(s) + 1 ELSE MinOf(stop)

\* str.lower()
lower(s) ==
    [k \in 1..Len(s) |->
        IF IsIn(s[k], UpperChars) THEN LowerChars[IndexIn(s[k], UpperChars)] ELSE s[k]]

\* str.strip()
strip(s) ==
    LET keep == {k \in 1..Len(s) : ~InClass("space", s[k])}
    IN  IF keep = {} THEN <<>> ELSE SubSeq(s, MinOf(keep), MaxOf(keep))

\* str.isdigit()
isdigit(s) == Len(s) > 0 /\ \A k \in 1..Len(s) : InClass("digit", s[k])

\* c in s, for a one-character c
HasChar(s, c) == \E k \in 1..Len(s) : s[k] = c

\* sub in s
HasSub(s, sub) ==
    \E k \in 1..(Len(s) - Len(sub) + 1) : SubSeq(s, k, k + Len(sub) - 1) = sub

\* s.replace(c, '')
RemoveChar(s, c) == SelectSeq(s, LAMBDA x : x # c)

\* s.split(c), for a one-character separator c
RECURSIVE SplitOn(_, _)
SplitOn(s, c) ==
    LET at == {k \in 1..Len(s) : s[k] = c}
    IN  IF at = {} THEN <<s>>
        ELSE <<SubSeq(s, 1, MinOf(at) - 1)>> \o SplitOn(SubSeq(s, MinOf(at) + 1, Len(s)), c)

\* s.split(): the whitespace-separated words of s
RECURSIVE SplitWords(_)
SplitWords(s) ==
    LET t == strip(s)
        sp == {k \in 1..Len(t) : InClass("space", t[k])}
    IN  IF t = <<>> THEN <<>>
        ELSE IF sp = {} THEN <<t>>
        ELSE <<SubSeq(t, 1, MinOf(sp) - 1)>> \o SplitWords(SubSeq(t, MinOf(sp), Len(t)))

\* int(s) of a string of digits
RECURSIVE int(_)
int(s) ==
    IF s = <<>> THEN 0
    ELSE 10 * int(SubSeq(s, 1, Len(s) - 1)) + (IndexIn(s[Len(s)], DigitChars) - 1)

\* str(n) of a natural number
RECURSIVE str(_)
str(n) == IF n < 10 THEN <<DigitChars[n + 1]>> ELSE Append(str(n \div 10), DigitChars[(n % 10) + 1])

\* sep.join(parts)
RECURSIVE Join(_, _)
Join(parts, sep) ==
    IF parts = <<>> THEN <<>>
    ELSE IF Len(parts) = 1 THEN parts[1]
    ELSE parts[1] \o sep \o Join(Tail(parts), sep)

\* The concatenation of a sequence of sequences.
RECURSIVE Flatten(_)
Flatten(ss) == IF ss = <<>> THEN <<>> ELSE ss[1] \o Flatten(Tail(ss))

(***************************************************************************)
(* CitationExtractor (citation_extractor.py).                              *)
(* A pattern is the sequence of the items of its regular expression:       *)
(*   lit c   the character c          one cls   one character of a class   *)
(*   plus cls  cls+                   star cls  cls*                       *)
(*   loop is   (?: is )*              open / close  the capturing group    *)
(* In the four patterns every repeated class is followed by an item that   *)
(* starts outside that class, so the greedy match is the only match and    *)
(* re's backtracking never finds another one.                              *)
(***************************************************************************)
Lit(c) == [t |-> "lit", a |-> c]

One(cls) == [t |-> "one", a |-> cls]

Plus(cls) == [t |-> "plus", a |-> cls]

Star(cls) == [t |-> "star", a |-> cls]

Loop(items) == [t |-> "loop", a |-> items]

Open == [t |-> "open", a |-> ""]

Close == [t |-> "close", a |-> ""]

YearDigits == <<One("digit"), One("digit"), One("digit"), One("digit")>>

CITATION_PATTERNS ==
    << \* \[(\d+(?:,\s*\d+)*)\]
       <<Lit("["), Open, Plus("digit"),
         Loop(<<Lit(","), Star("space"), Plus("digit")>>), Close, Lit("]")>>,
       \* \[(\d+-\d+)\]
       <<Lit("["), Open, Plus("digit"), Lit("-"), Plus("digit"), Close, Lit("]")>>,
       \* \(([A-Z][a-z]+\s+et\s+al\.,\s*\d{4})\)
       <<Lit("("), Open, One("upper"), Plus("lower"), Plus("space"), Lit("e"), Lit("t"),
         Plus("space"), Lit("a"), Lit("l"), Lit("."), Lit(","), Star("space")>>
         \o YearDigits \o <<Close, Lit(")")>>,
       \* \(([A-Z][a-z]+\s+and\s+[A-Z][a-z]+,\s*\d{4})\)
       <<Lit("("), Open, One("upper"), Plus("lower"), Plus("space"),
         Lit("a"), Lit("n"), Lit("d"), Plus("space"), One("upper"), Plus("lower"),
         Lit(","), Star("space")>>
         \o YearDigits \o <<Close, Lit(")")>> >>

NoMatch == [end |-> 0, gs |-> 0, ge |-> 0]

\* The match of items[k..] at index p of s: the index after the match and the
\* bounds of group 1, or NoMatch.
RECURSIVE MatchFrom(_, _, _, _, _, _)
MatchFrom(items, k, s, p, gs, ge) ==
    IF k > Len(items) THEN [end |-> p, gs |-> gs, ge |-> ge]
    ELSE LET it == items[k] IN
         CASE it.t = "open"  -> MatchFrom(items, k + 1, s, p, p, ge)
           [] it.t = "close" -> MatchFrom(items, k + 1, s, p, gs, p)
           [] it.t = "lit"   -> IF p <= Len(s) /\ s[p] = it.a
                                THEN MatchFrom(items, k + 1, s, p + 1, gs, ge)
                                ELSE NoMatch
           [] it.t = "one"   -> IF p <= Len(s) /\ InClass(it.a, s[p])
                                THEN MatchFrom(items, k + 1, s, p + 1, gs, ge)
                                ELSE NoMatch
           [] it.t = "plus"  -> IF SpanEnd(s, p, it.a) > p
                                THEN MatchFrom(items, k + 1, s, SpanEnd(s, p, it.a), gs, ge)
                                ELSE NoMatch
           [] it.t = "star"  -> MatchFrom(items, k + 1, s, SpanEnd(s, p, it.a), gs, ge)
           [] it.t = "loop"  ->
                LET once == MatchFrom(it.a, 1, s, p, 0, 0)
                IN  IF once.end > p
                    THEN MatchFrom(items, k, s, once.end, gs, ge)
                    ELSE MatchFrom(items, k + 1, s, p, gs, ge)

\* pattern.finditer(sentence) from index p on: the non-overlapping matches, left
\* to right (each starts at the first index at or after the end of the one
\* before where the pattern matches), with match.start() (0-based) and group(1).
\* pattern.search in place of finditer: only the first match.
finditer_first_only(pattern, s, p) ==
    LET starts == {q \in p..Len(s) : MatchFrom(pattern, 1, s, q, 0, 0).end > 0}
        first == MinOf(starts)
        m == MatchFrom(pattern, 1, s, first, 0, 0)
    IN  IF starts = {} THEN <<>>
        ELSE <<[start |-> first - 1, group |-> SubSeq(s, m.gs, m.ge - 1)]>>

RECURSIVE finditer(_, _, _)
finditer(pattern, s, p) ==
    LET starts == {q \in p..Len(s) : MatchFrom(pattern, 1, s, q, 0, 0).end > 0}
        first == MinOf(starts)
        m == MatchFrom(pattern, 1, s, first, 0, 0)
    IN  IF starts = {} THEN <<>>
        ELSE <<[start |-> first - 1, group |-> SubSeq(s, m.gs, m.ge - 1)]>>
             \o finditer(pattern, s, m.end)

\* re.split(r'[.!?]+\s+', text) from index p on: the pieces between the
\* separators, a separator starting at the first terminal character whose run
\* of terminal characters is followed by whitespace.
RECURSIVE SplitPieces(_, _)
SplitPieces(s, p) ==
    LET AfterRun(q) == SpanEnd(s, q, "terminal")
        seps == {q \in p..Len(s) : /\ InClass("terminal", s[q])
                                   /\ SpanEnd(s, AfterRun(q), "space") > AfterRun(q)}
        first == MinOf(seps)
    IN  IF seps = {} THEN <<SubSeq(s, p, Len(s))>>
        ELSE <<SubSeq(s, p, first - 1)>>
             \o SplitPieces(s, SpanEnd(s, AfterRun(first), "space"))

_split_sentences(text) ==
    LET pieces == SplitPieces(text, 1)
        stripped == [k \in 1..Len(pieces) |-> strip(pieces[k])]
    IN  SelectSeq(stripped, LAMBDA x : x # <<>>)

\* range(start, end) in place of range(start, end + 1).
_parse_reference_ids_exclusive_end(ref_string) ==
    IF HasChar(ref_string, "-") /\ isdigit(RemoveChar(ref_string, "-"))
    THEN LET parts == SplitOn(ref_string, "-")
             start == int(parts[1])
             end == int(parts[2])
         IN  IF Len(parts) = 2
             THEN [k \in 1..(IF end > start THEN end - start ELSE 0) |-> str(start + k - 1)]
             ELSE <<>>
    ELSE IF HasChar(ref_string, ",")
    THEN LET parts == SplitOn(ref_string, ",")
             stripped == [k \in 1..Len(parts) |-> strip(parts[k])]
         IN  SelectSeq(stripped, LAMBDA x : x # <<>>)
    ELSE <<strip(ref_string)>>

_parse_reference_ids(ref_string) ==
    IF HasChar(ref_string, "-") /\ isdigit(RemoveChar(ref_string, "-"))
    THEN LET parts == SplitOn(ref_string, "-")
             start == int(parts[1])
             end == int(parts[2])
         IN  IF Len(parts) = 2
             THEN [k \in 1..(IF end >= start THEN end - start + 1 ELSE 0) |-> str(start + k - 1)]
             ELSE <<>>
    ELSE IF HasChar(ref_string, ",")
    THEN LET parts == SplitOn(ref_string, ",")
             stripped == [k \in 1..Len(parts) |-> strip(parts[k])]
         IN  SelectSeq(stripped, LAMBDA x : x # <<>>)
    ELSE <<strip(ref_string)>>

Window == 2

\* i is the 0-based index of the sentence, as in the source.
_extract_context(sentences, i, window) ==
    LET start == IF i - window > 0 THEN i - window ELSE 0
        end == IF i + window + 1 < Len(sentences) THEN i + window + 1 ELSE Len(sentences)
    IN  Join(SubSeq(sentences, start + 1, end), <<" ">>)

SUPPORT_INDICATORS ==
    << <<"s","h","o","w","n">>, <<"d","e","m","o","n","s","t","r","a","t","e","d">>,
       <<"p","r","o","v","e","n">>, <<"v","a","l","i","d","a","t","e","d">>,
       <<"c","o","n","f","i","r","m","e","d">> >>

CONTRAST_INDICATORS ==
    << <<"h","o","w","e","v","e","r">>, <<"c","o","n","t","r","a","r","y">>,
       <<"u","n","l","i","k","e">>, <<"d","i","f","f","e","r","e","n","t">>,
       <<"c","o","n","t","r","a","s","t">> >>

METHODOLOGY_INDICATORS ==
    << <<"m","e","t","h","o","d">>, <<"a","p","p","r","o","a","c","h">>,
       <<"t","e","c","h","n","i","q","u","e">>, <<"a","l","g","o","r","i","t","h","m">>,
       <<"u","s","i","n","g">> >>

AnyIn(indicators, s) == \E k \in 1..Len(indicators) : HasSub(s, indicators[k])

_classify_citation(sentence) ==
    LET sentence_lower == lower(sentence)
    IN  IF AnyIn(SUPPORT_INDICATORS, sentence_lower) THEN "support"
        ELSE IF AnyIn(CONTRAST_INDICATORS, sentence_lower) THEN "contrast"
        ELSE IF AnyIn(METHODOLOGY_INDICATORS, sentence_lower) THEN "methodology"
        ELSE "support"

\* The citations of one match in sentence i (0-based): one per parsed id.
MatchCitations(sentences, i, m) ==
    LET ref_ids == _parse_reference_ids(m.group)
    IN  [k \in 1..Len(ref_ids) |->
            [reference_id |-> ref_ids[k],
             position |-> m.start,
             context |-> _extract_context(sentences, i, Window),
             sentence |-> sentences[i + 1],
             citation_type |-> _classify_citation(sentences[i + 1]),
             sentence_index |-> i]]

\* The loops of extract_citations: patterns outermost, then sentences, then the
\* matches of the pattern in the sentence, then the ids of the match.
\* sentence_index is the loop variable i, kept to tell two equal sentences apart.
extract_citations(text) ==
    LET sentences == _split_sentences(text)
        OfSentence(pattern, i) ==
            LET ms == finditer(pattern, sentences[i + 1], 1)
            IN  Flatten([k \in 1..Len(ms) |-> MatchCitations(sentences, i, ms[k])])
        OfPattern(pattern) ==
            Flatten([j \in 1..Len(sentences) |-> OfSentence(pattern, j - 1)])
    IN  Flatten([p \in 1..Len(CITATION_PATTERNS) |-> OfPattern(CITATION_PATTERNS[p])])

(***************************************************************************)
(* The inputs of analyze.                                                  *)
(* The manuscript is written as a sequence of tokens: words, the sentence  *)
(* end ".", and citation markers of the four forms.  TokenText spells a    *)
(* token out and Render the manuscript: tokens one space apart, a "."      *)
(* right after the token before it.                                        *)
(***************************************************************************)
Word(w) == [kind |-> "word", a |-> <<w>>]

Period == [kind |-> "period", a |-> <<>>]

\* [n]
Single(n) == [kind |-> "single", a |-> <<str(n)>>]

\* [n,m,...]
List(ns) == [kind |-> "list", a |-> [k \in 1..Len(ns) |-> str(ns[k])]]

\* [n, m, ...]
ListSp(ns) == [kind |-> "listsp", a |-> [k \in 1..Len(ns) |-> str(ns[k])]]

\* [n-m]
Range(n, m) == [kind |-> "range", a |-> <<str(n), str(m)>>]

\* (Name et al., YYYY)
EtAl(name, year) == [kind |-> "etal", a |-> <<name, str(year)>>]

\* (Name and Name, YYYY)
AndOf(name1, name2, year) == [kind |-> "and", a |-> <<name1, name2, str(year)>>]

TokenText(tok) ==
    CASE tok.kind = "word"   -> tok.a[1]
      [] tok.kind = "period" -> <<".">>
      [] tok.kind = "single" -> <<"[">> \o tok.a[1] \o <<"]">>
      [] tok.kind = "list"   -> <<"[">> \o Join(tok.a, <<",">>) \o <<"]">>
      [] tok.kind = "listsp" -> <<"[">> \o Join(tok.a, <<",", " ">>) \o <<"]">>
      [] tok.kind = "range"  -> <<"[">> \o tok.a[1] \o <<"-">> \o tok.a[2] \o <<"]">>
      [] tok.kind = "etal"   -> <<"(">> \o tok.a[1] \o <<" ","e","t"," ","a","l",".",","," ">>
                                \o tok.a[2] \o <<")">>
      [] tok.kind = "and"    -> <<"(">> \o tok.a[1] \o <<" ","a","n","d"," ">> \o tok.a[2]
                                \o <<",", " ">> \o tok.a[3] \o <<")">>

RECURSIVE Render(_)
Render(toks) ==
    IF toks = <<>> THEN <<>>
    ELSE LET before == Render(SubSeq(toks, 1, Len(toks) - 1))
             last == toks[Len(toks)]
         IN  IF Len(toks) = 1 \/ last.kind = "period" THEN before \o TokenText(last)
             ELSE before \o <<" ">> \o TokenText(last)

\* A "." ends a sentence: it follows a token that is not a ".".
WellFormed(toks) ==
    \A k \in 1..Len(toks) :
        toks[k].kind = "period" => k > 1 /\ toks[k - 1].kind # "period"

SeqsUpTo(S, n) == UNION {[1..k -> S] : k \in 0..n}

Manuscripts(tokens, n) == {toks \in SeqsUpTo(tokens, n) : WellFormed(toks)}

Smith == <<"S","m","i","t","h">>

Jones == <<"J","o","n","e","s">>

Brown == <<"B","r","o","w","n">>

Researcher == <<"R","e","s","e","a","r","c","h","e","r">>

JSmith == <<"J"," ","S","m","i","t","h">>

JournalA == <<"J","o","u","r","n","a","l"," ","A">>

JournalALower == <<"j","o","u","r","n","a","l"," ","a">>

ConferenceB == <<"C","o","n","f","e","r","e","n","c","e"," ","B">>

\* The longest manuscript and the longest reference list Init draws.
\* The node ids of n references, and the orders a process may iterate them in.
NodeIds(n) == {str(i) : i \in 1..n}

Orders(S) == {f \in [1..Cardinality(S) -> S] : \A i, j \in DOMAIN f : f[i] = f[j] => i = j}

\* The years a call is made in
CurrentYears == {2023, 2026}

MaxTokens == 3

MaxRefs == 2

ExtractTokens ==
    { Word(<<"s","e","e">>), Period,
      Single(1), List(<<1, 1>>), ListSp(<<2, 3>>), Range(2, 4), Range(3, 1),
      EtAl(Smith, 2020), AndOf(Smith, Jones, 2021) }

(***************************************************************************)
(* A dictionary entry or an optional argument: absent, None, or a value.   *)
(***************************************************************************)
Missing == [kind |-> "missing", v |-> <<>>]

None == [kind |-> "null", v |-> <<>>]

Val(x) == [kind |-> "value", v |-> x]

\* dict.get(key, default), on the entry of the key
get(entry, default) == IF entry.kind = "missing" THEN default ELSE entry

\* The truth value of an entry that is None, a str or a list.
Truthy(x) == x.kind = "value" /\ x.v # <<>>

\* The truth value of an entry that is None or an int.
TruthyInt(x) == x.kind = "value" /\ x.v # 0

Ref(authors, title, year, venue) ==
    [authors |-> authors, title |-> title, year |-> year, venue |-> venue]

(***************************************************************************)
(* Fractions, for the floats of the source.                                *)
(***************************************************************************)
Frac(n, d) == [num |-> n, den |-> d]

FLess(a, b) == a.num * b.den < b.num * a.den

FEq(a, b) == a.num * b.den = b.num * a.den

FMin(a, b) == IF FLess(b, a) THEN b ELSE a

RECURSIVE Gcd(_, _)
Gcd(a, b) == IF b = 0 THEN a ELSE Gcd(b, a % b)

\* The fraction in lowest terms, its denominator positive
Lowest(f) == Frac(f.num \div Gcd(f.num, f.den), f.den \div Gcd(f.num, f.den))

\* A float that is the result of several rounded operations: the fraction
\* computed exactly, and in err the sign of the difference between the float the
\* source computes and the float nearest to that fraction (0 when they are the
\* same float).  A single division of two ints is correctly rounded: err is 0,
\* and the fraction alone stands for it.
Float(f, err) == [num |-> f.num, den |-> f.den, err |-> err]

\* x < threshold and x > threshold, the threshold a float literal
FloatLess(x, threshold) == FLess(x, threshold) \/ (FEq(x, threshold) /\ x.err < 0)

FloatGreater(x, threshold) == FLess(threshold, x) \/ (FEq(x, threshold) /\ x.err > 0)

FMul(a, b) == Lowest(Frac(a.num * b.num, a.den * b.den))

\* over the least common denominator
FAdd(a, b) ==
    LET g == Gcd(a.den, b.den)
    IN  Lowest(Frac(a.num * (b.den \div g) + b.num * (a.den \div g),
                    a.den * (b.den \div g)))

(***************************************************************************)
(* CitationGraph and GraphBuilder (graph_builder.py).  A dict is a         *)
(* function on its keys.                                                   *)
(***************************************************************************)
Put(d, k, v) == [x \in (DOMAIN d) \cup {k} |-> IF x = k THEN v ELSE d[x]]

EmptyGraph == [nodes |-> {}, edges |-> <<>>, node_attributes |-> <<>>, edge_attributes |-> <<>>]

add_node(g, node_id, attributes) ==
    [g EXCEPT !.nodes = @ \cup {node_id},
              !.node_attributes = Put(@, node_id, attributes)]

add_edge(g, from_node, to_node, attributes) ==
    [g EXCEPT !.edges = Append(@, <<from_node, to_node>>),
              !.edge_attributes = Put(@, <<from_node, to_node>>, attributes)]

get_neighbors(g, node_id) ==
    LET touching == SelectSeq(g.edges, LAMBDA e : e[1] = node_id \/ e[2] = node_id)
    IN  [k \in 1..Len(touching) |->
            IF touching[k][1] = node_id THEN touching[k][2] ELSE touching[k][1]]

InSeq(x, s) == \E k \in 1..Len(s) : s[k] = x

\* The keys of a dict in insertion order, from the sequence of the keys assigned.
RECURSIVE InsertionOrder(_)
InsertionOrder(keys) ==
    IF keys = <<>> THEN <<>>
    ELSE LET before == InsertionOrder(SubSeq(keys, 1, Len(keys) - 1))
         IN  IF InSeq(keys[Len(keys)], before) THEN before
             ELSE Append(before, keys[Len(keys)])

\* for i, ref1 in enumerate(ref_ids): for ref2 in ref_ids[i+1:]
PairsOf(ref_ids) ==
    Flatten([i \in 1..Len(ref_ids) |->
                [j \in 1..(Len(ref_ids) - i) |-> <<ref_ids[i], ref_ids[i + j]>>]])

ContextKeyLen == 100

ContextKey(citation) ==
    SubSeq(citation.context, 1,
           IF Len(citation.context) < ContextKeyLen THEN Len(citation.context)
           ELSE ContextKeyLen)

\* The co-citation loop without its test "ref1 in graph.nodes and ref2 in
\* graph.nodes"
RECURSIVE AddCoCitationPairs_unchecked(_, _)
AddCoCitationPairs_unchecked(g, pairs) ==
    IF pairs = <<>> THEN g
    ELSE AddCoCitationPairs_unchecked(
            add_edge(g, pairs[1][1], pairs[1][2], [type |-> "co-citation"]), Tail(pairs))

RECURSIVE AddCoCitationPairs(_, _)
AddCoCitationPairs(g, pairs) ==
    IF pairs = <<>> THEN g
    ELSE LET ref1 == pairs[1][1]
             ref2 == pairs[1][2]
         IN  IF ref1 \in g.nodes /\ ref2 \in g.nodes
             THEN AddCoCitationPairs(add_edge(g, ref1, ref2, [type |-> "co-citation"]),
                                     Tail(pairs))
             ELSE AddCoCitationPairs(g, Tail(pairs))

_add_co_citation_edges(g, cites) ==
    LET contexts == InsertionOrder([k \in 1..Len(cites) |-> ContextKey(cites[k])])
        RefIds(context) ==
            LET group == SelectSeq(cites, LAMBDA c : ContextKey(c) = context)
            IN  [k \in 1..Len(group) |-> group[k].reference_id]
        GroupPairs(context) ==
            IF Len(RefIds(context)) > 1 THEN PairsOf(RefIds(context)) ELSE <<>>
    IN  AddCoCitationPairs(g, Flatten([k \in 1..Len(contexts) |-> GroupPairs(contexts[k])]))

\* The coupling loop without its test "not already connected"
RECURSIVE AddCouplingPairs_unchecked(_, _)
AddCouplingPairs_unchecked(g, pairs) ==
    IF pairs = <<>> THEN g
    ELSE LET ref1 == pairs[1][1]
             ref2 == pairs[1][2]
         IN  IF ref1 \in g.nodes /\ ref2 \in g.nodes
             THEN AddCouplingPairs_unchecked(
                      add_edge(g, ref1, ref2, [type |-> "coupling"]), Tail(pairs))
             ELSE AddCouplingPairs_unchecked(g, Tail(pairs))

RECURSIVE AddCouplingPairs(_, _)
AddCouplingPairs(g, pairs) ==
    IF pairs = <<>> THEN g
    ELSE LET ref1 == pairs[1][1]
             ref2 == pairs[1][2]
         IN  IF /\ ref1 \in g.nodes /\ ref2 \in g.nodes
                /\ ~InSeq(<<ref1, ref2>>, g.edges) /\ ~InSeq(<<ref2, ref1>>, g.edges)
             THEN AddCouplingPairs(add_edge(g, ref1, ref2, [type |-> "coupling"]),
                                   Tail(pairs))
             ELSE AddCouplingPairs(g, Tail(pairs))

\* ref.get('venue', '').lower() of None raises AttributeError.
CouplingRaises(refs) == \E i \in 1..Len(refs) : get(refs[i].venue, Val(<<>>)).kind = "null"

\* Only called when CouplingRaises(refs) is false.
_add_bibliographic_coupling_edges(g, refs) ==
    LET VenueOf(i) == lower(get(refs[i].venue, Val(<<>>)).v)
        withVenue == SelectSeq([i \in 1..Len(refs) |-> i], LAMBDA i : VenueOf(i) # <<>>)
        venues == InsertionOrder([k \in 1..Len(withVenue) |-> VenueOf(withVenue[k])])
        RefIds(venue) ==
            LET group == SelectSeq(withVenue, LAMBDA i : VenueOf(i) = venue)
            IN  [k \in 1..Len(group) |-> str(group[k])]
        GroupPairs(venue) ==
            IF Len(RefIds(venue)) > 1 THEN PairsOf(RefIds(venue)) ELSE <<>>
    IN  AddCouplingPairs(g, Flatten([k \in 1..Len(venues) |-> GroupPairs(venues[k])]))

\* Node ids counted from 0: str(i) of enumerate's i instead of str(i+1)
RECURSIVE AddNodes_zero_based(_, _, _)
AddNodes_zero_based(g, refs, i) ==
    IF i > Len(refs) THEN g
    ELSE AddNodes_zero_based(
            add_node(g, str(i - 1),
                     [title |-> get(refs[i].title, Val(<<>>)),
                      year |-> get(refs[i].year, None),
                      authors |-> get(refs[i].authors, Val(<<>>)),
                      venue |-> get(refs[i].venue, Val(<<>>))]),
            refs, i + 1)

RECURSIVE AddNodes(_, _, _)
AddNodes(g, refs, i) ==
    IF i > Len(refs) THEN g
    ELSE AddNodes(add_node(g, str(i),
                           [title |-> get(refs[i].title, Val(<<>>)),
                            year |-> get(refs[i].year, None),
                            authors |-> get(refs[i].authors, Val(<<>>)),
                            venue |-> get(refs[i].venue, Val(<<>>))]),
                  refs, i + 1)

\* Only called when CouplingRaises(refs) is false.
build_graph(cites, refs) ==
    _add_bibliographic_coupling_edges(
        _add_co_citation_edges(AddNodes(EmptyGraph, refs, 1), cites), refs)

(***************************************************************************)
(* PatternDetector (pattern_detector.py).  A CitationPattern is a record;  *)
(* its evidence field holds the values the evidence and description        *)
(* strings are formatted from.  "for node in graph.nodes" iterates a set   *)
(* of str, in an order that depends on the hash seed of the interpreter    *)
(* process: the operators take that order as the sequence nodes.           *)
(***************************************************************************)
CitationPattern(pattern_type, suspicion_score, evidence, affected_references) ==
    [pattern_type |-> pattern_type, suspicion_score |-> suspicion_score,
     evidence |-> evidence, affected_references |-> affected_references]

CLUSTER_DENSITY_THRESHOLD == Frac(7, 10)

RECIPROCAL_CITATION_THRESHOLD == 3

\* graph.nodes in iteration order: the nodes of g in the order of hash_order.
IterNodes(g, hash_order) == SelectSeq(hash_order, LAMBDA n : n \in g.nodes)

\* The number of pairs i < j of the neighbor list joined by an edge.
NeighborEdges(g, neighbors) ==
    Cardinality({p \in (1..Len(neighbors)) \X (1..Len(neighbors)) :
                    /\ p[1] < p[2]
                    /\ \/ InSeq(<<neighbors[p[1]], neighbors[p[2]]>>, g.edges)
                       \/ InSeq(<<neighbors[p[2]], neighbors[p[1]]>>, g.edges)})

\* The loop of _detect_clustering from nodes[k] on: [total_clustering,
\* nodes_with_neighbors].
RECURSIVE ClusteringFrom(_, _, _, _)
ClusteringFrom(g, nodes, k, acc) ==
    IF k > Len(nodes) THEN acc
    ELSE LET neighbors == get_neighbors(g, nodes[k])
             n == Len(neighbors)
         IN  IF n < 2 THEN ClusteringFrom(g, nodes, k + 1, acc)
             ELSE ClusteringFrom(g, nodes, k + 1,
                     [total_clustering |->
                          FAdd(acc.total_clustering,
                               Frac(2 * NeighborEdges(g, neighbors), n * (n - 1))),
                      nodes_with_neighbors |-> acc.nodes_with_neighbors + 1])

\* The list of the pattern returned: empty for None.
_detect_clustering(g, nodes) ==
    LET acc == ClusteringFrom(g, nodes, 1,
                   [total_clustering |-> Frac(0, 1), nodes_with_neighbors |-> 0])
        avg_clustering ==
            Lowest(Frac(acc.total_clustering.num,
                        acc.total_clustering.den * acc.nodes_with_neighbors))
    IN  IF Cardinality(g.nodes) < 3 THEN <<>>
        ELSE IF acc.nodes_with_neighbors = 0 THEN <<>>
        ELSE IF FLess(CLUSTER_DENSITY_THRESHOLD, avg_clustering)
        THEN << CitationPattern("excessive_clustering",
                                Float(FMin(avg_clustering, Frac(1, 1)), 0),
                                <<avg_clustering>>, nodes) >>
        ELSE <<>>

\* _find_ring_size returns [ring, depth, revisit]: ring is the int the source
\* returns, depth the number of nested calls it made (itself included), and
\* revisit whether a nested call was made on a node already in visited.
\* RingFrom is a call at nesting depth d with visited given; RingLoop is its
\* loop over neighbors from neighbors[k] on, visited holding current_node.
RECURSIVE RingFrom(_, _, _, _, _)
RECURSIVE RingLoop_no_visited_check(_, _, _, _, _, _, _)
RingLoop_no_visited_check(g, start_node, visited, neighbors, k, acc, d) ==
    IF k > Len(neighbors) THEN acc
    ELSE IF neighbors[k] = start_node
    THEN [acc EXCEPT !.ring = Cardinality(visited) + 1]
    ELSE LET r == RingFrom(g, start_node, neighbors[k], visited, d + 1)
         IN  RingLoop_no_visited_check(g, start_node, visited, neighbors, k + 1,
                 [ring |-> MaxOf({acc.ring, r.ring}),
                  depth |-> MaxOf({acc.depth, r.depth}),
                  revisit |-> acc.revisit \/ r.revisit], d)

\* "return len(visited) + 1" replaced by "return len(visited)": the closing
\* step to start_node is not counted.
RECURSIVE RingLoop_closing_not_counted(_, _, _, _, _, _, _)
RingLoop_closing_not_counted(g, start_node, visited, neighbors, k, acc, d) ==
    IF k > Len(neighbors) THEN acc
    ELSE IF neighbors[k] = start_node
    THEN [acc EXCEPT !.ring = Cardinality(visited)]
    ELSE IF neighbors[k] \notin visited
    THEN LET r == RingFrom(g, start_node, neighbors[k], visited, d + 1)
         IN  RingLoop_closing_not_counted(g, start_node, visited, neighbors, k + 1,
                 [ring |-> MaxOf({acc.ring, r.ring}),
                  depth |-> MaxOf({acc.depth, r.depth}),
                  revisit |-> acc.revisit \/ r.revisit], d)
    ELSE RingLoop_closing_not_counted(g, start_node, visited, neighbors, k + 1, acc, d)

RECURSIVE RingLoop(_, _, _, _, _, _, _)
RingLoop(g, start_node, visited, neighbors, k, acc, d) ==
    IF k > Len(neighbors) THEN acc
    ELSE IF neighbors[k] = start_node
    THEN [acc EXCEPT !.ring = Cardinality(visited) + 1]
    ELSE IF neighbors[k] \notin visited
    THEN LET r == RingFrom(g, start_node, neighbors[k], visited, d + 1)
         IN  RingLoop(g, start_node, visited, neighbors, k + 1,
                 [ring |-> MaxOf({acc.ring, r.ring}),
                  depth |-> MaxOf({acc.depth, r.depth}),
                  revisit |-> acc.revisit \/ r.revisit], d)
    ELSE RingLoop(g, start_node, visited, neighbors, k + 1, acc, d)

RingFrom(g, start_node, current_node, visited, d) ==
    IF current_node \in visited
    THEN [ring |-> Cardinality(visited), depth |-> d, revisit |-> d > 1]
    ELSE LET added == visited \cup {current_node}
         IN  RingLoop(g, start_node, added, get_neighbors(g, current_node), 1,
                      [ring |-> Cardinality(added), depth |-> d, revisit |-> FALSE], d)

\* The call of _detect_citation_cartels: visited is None.
_find_ring_size(g, start_node, current_node) ==
    RingFrom(g, start_node, current_node, {start_node}, 1)

\* The pattern of one (node, neighbor): the list of it, empty for none.
CartelOf(g, node, neighbor) ==
    LET ring_size == _find_ring_size(g, node, neighbor).ring
    IN  IF InSeq(node, get_neighbors(g, neighbor))
           /\ ring_size >= RECIPROCAL_CITATION_THRESHOLD
        THEN << CitationPattern("citation_cartel",
                                Float(FMin(Frac(ring_size, 10), Frac(1, 1)), 0),
                                <<ring_size, node, neighbor>>, <<node, neighbor>>) >>
        ELSE <<>>

_detect_citation_cartels(g, nodes) ==
    Flatten([i \in 1..Len(nodes) |->
                Flatten([j \in 1..Len(get_neighbors(g, nodes[i])) |->
                            CartelOf(g, nodes[i], get_neighbors(g, nodes[i])[j])])])

\* citation_counts[ref_id]
CitationCount(cites, ref_id) ==
    Cardinality({k \in 1..Len(cites) : cites[k].reference_id = ref_id})

\* concentration_ratio * 1.5 in binary64: 0.4 * 1.5 is 0.6000000000000001, above
\* the float 0.6; no other product of a ratio of two ints below 60 lies on the
\* other side of 0.5 or 0.6 than the exact product.
ConcentrationErr(concentration_ratio) ==
    IF FEq(concentration_ratio, Frac(2, 5)) THEN 1 ELSE 0

\* "> 0.3" replaced by ">= 0.3"
_detect_concentration_at_least(g, cites) ==
    LET keys == InsertionOrder([k \in 1..Len(cites) |-> cites[k].reference_id])
        max_citations == MaxOf({CitationCount(cites, keys[k]) : k \in 1..Len(keys)})
        total_citations == Len(cites)
        concentration_ratio == Frac(max_citations, total_citations)
        top_refs == SelectSeq(keys, LAMBDA r : CitationCount(cites, r) = max_citations)
    IN  IF cites = <<>> THEN <<>>
        ELSE IF ~FLess(concentration_ratio, Frac(3, 10))
        THEN << CitationPattern("citation_concentration",
                                Float(FMin(FMul(concentration_ratio, Frac(3, 2)), Frac(1, 1)),
                                      ConcentrationErr(concentration_ratio)),
                                <<concentration_ratio, max_citations, total_citations>>,
                                top_refs) >>
        ELSE <<>>

_detect_concentration(g, cites) ==
    LET keys == InsertionOrder([k \in 1..Len(cites) |-> cites[k].reference_id])
        max_citations == MaxOf({CitationCount(cites, keys[k]) : k \in 1..Len(keys)})
        total_citations == Len(cites)
        concentration_ratio == Frac(max_citations, total_citations)
        top_refs == SelectSeq(keys, LAMBDA r : CitationCount(cites, r) = max_citations)
    IN  IF cites = <<>> THEN <<>>
        ELSE IF FLess(Frac(3, 10), concentration_ratio)
        THEN << CitationPattern("citation_concentration",
                                Float(FMin(FMul(concentration_ratio, Frac(3, 2)), Frac(1, 1)),
                                      ConcentrationErr(concentration_ratio)),
                                <<concentration_ratio, max_citations, total_citations>>,
                                top_refs) >>
        ELSE <<>>

RecentYears == 3

MinYears == 5

_detect_temporal_anomalies(g, nodes, current_year) ==
    LET withYear == SelectSeq(nodes, LAMBDA n : TruthyInt(g.node_attributes[n].year))
        years == [k \in 1..Len(withYear) |-> g.node_attributes[withYear[k]].year.v]
        recent_citations ==
            Cardinality({k \in 1..Len(years) : years[k] >= current_year - RecentYears})
    IN  IF Len(years) < MinYears THEN <<>>
        ELSE IF recent_citations = 0
        THEN << CitationPattern("temporal_anomaly", Float(Frac(6, 10), 0),
                                <<MaxOf({years[k] : k \in 1..Len(years)})>>, <<>>) >>
        ELSE <<>>

detect_patterns(g, cites, nodes, current_year) ==
    _detect_clustering(g, nodes)
        \o _detect_citation_cartels(g, nodes)
        \o _detect_concentration(g, cites)
        \o _detect_temporal_anomalies(g, nodes, current_year)

(***************************************************************************)
(* CitationGraphAnalyzer (citation_graph_analyzer.py).                     *)
(***************************************************************************)
\* An operation that may raise returns [raised, value].
Raised == [raised |-> TRUE, value |-> 0]

Returned(x) == [raised |-> FALSE, value |-> x]

\* name.lower().split(): [-1] of it raises IndexError when it is empty.
NameWords(name) == SplitWords(lower(name))

LastName(name) == NameWords(name)[Len(NameWords(name))]

\* The inner loop over ref_authors from index k on: "match" at the first author
\* whose last name is a manuscript author's (the break), "raise" at an author
\* without a word, "none" at the end of the list.
RECURSIVE ScanAuthors(_, _, _)
ScanAuthors(ref_authors, k, normalized_authors) ==
    IF k > Len(ref_authors) THEN "none"
    ELSE IF NameWords(ref_authors[k]) = <<>> THEN "raise"
    ELSE IF LastName(ref_authors[k]) \in normalized_authors THEN "match"
    ELSE ScanAuthors(ref_authors, k + 1, normalized_authors)

\* The loop over references without the break: one count per matching author.
RECURSIVE CountFrom_no_break(_, _, _, _)
CountFrom_no_break(refs, i, normalized_authors, self_count) ==
    IF i > Len(refs) THEN Returned(self_count)
    ELSE LET ref_authors == get(refs[i].authors, Val(<<>>))
             matching == {k \in 1..Len(ref_authors.v) :
                             /\ NameWords(ref_authors.v[k]) # <<>>
                             /\ LastName(ref_authors.v[k]) \in normalized_authors}
         IN  IF \/ ref_authors.kind = "null"
                \/ \E k \in 1..Len(ref_authors.v) : NameWords(ref_authors.v[k]) = <<>>
             THEN Raised
             ELSE CountFrom_no_break(refs, i + 1, normalized_authors,
                                     self_count + Cardinality(matching))

\* The loop over references from index i on; iterating authors = None raises
\* TypeError.
RECURSIVE CountFrom(_, _, _, _)
CountFrom(refs, i, normalized_authors, self_count) ==
    IF i > Len(refs) THEN Returned(self_count)
    ELSE LET ref_authors == get(refs[i].authors, Val(<<>>))
             scan == ScanAuthors(ref_authors.v, 1, normalized_authors)
         IN  IF ref_authors.kind = "null" \/ scan = "raise" THEN Raised
             ELSE CountFrom(refs, i + 1, normalized_authors,
                            IF scan = "match" THEN self_count + 1 ELSE self_count)

\* names is author_names or []
_count_self_citations(cites, refs, names) ==
    IF names = <<>> THEN Returned(0)
    ELSE IF \E k \in 1..Len(names) : NameWords(names[k]) = <<>> THEN Raised
    ELSE CountFrom(refs, 1, {LastName(names[k]) : k \in 1..Len(names)}, 0)

\* len(set(...)) over the (reference_id, position) pairs.
UniqueCitations_by_position(cites) ==
    Cardinality({<<cites[k].reference_id, cites[k].position>> : k \in 1..Len(cites)})

\* len(set(c.reference_id for c in citations))
UniqueCitations(cites) == Cardinality({cites[k].reference_id : k \in 1..Len(cites)})

\* max_edges halved, as for an undirected graph
_calculate_network_density_undirected(g) ==
    LET num_nodes == Cardinality(g.nodes)
        num_edges == Len(g.edges)
        max_edges == (num_nodes * (num_nodes - 1)) \div 2
    IN  IF num_nodes < 2 THEN Frac(0, 1)
        ELSE IF max_edges > 0 THEN Frac(num_edges, max_edges) ELSE Frac(0, 1)

_calculate_network_density(g) ==
    LET num_nodes == Cardinality(g.nodes)
        num_edges == Len(g.edges)
        max_edges == num_nodes * (num_nodes - 1)
    IN  IF num_nodes < 2 THEN Frac(0, 1)
        ELSE IF max_edges > 0 THEN Frac(num_edges, max_edges) ELSE Frac(0, 1)

RECURSIVE TemporalFrom(_, _, _)
TemporalFrom(refs, i, distribution) ==
    IF i > Len(refs) THEN distribution
    ELSE LET year == get(refs[i].year, None)
         IN  IF TruthyInt(year)
             THEN TemporalFrom(refs, i + 1,
                               Put(distribution, year.v,
                                   IF year.v \in DOMAIN distribution
                                   THEN distribution[year.v] + 1 ELSE 1))
             ELSE TemporalFrom(refs, i + 1, distribution)

_analyze_temporal_distribution(refs) == TemporalFrom(refs, 1, <<>>)

\* venue_diversity * 0.6 + author_diversity * 0.4 in binary64: for these pairs
\* it is 0.39999999999999997, below the float 0.4; for no other pair that up to
\* eight references give does it lie on the other side of 0.3 or 0.4 than the
\* exact sum.
DiversityErr(venue_diversity, author_diversity) ==
    IF \E p \in { <<Frac(2, 3), Frac(0, 1)>>, <<Frac(1, 5), Frac(7, 10)>>,
                  <<Frac(1, 7), Frac(11, 14)>>, <<Frac(2, 7), Frac(4, 7)>>,
                  <<Frac(4, 7), Frac(1, 7)>> } :
            FEq(venue_diversity, p[1]) /\ FEq(author_diversity, p[2])
    THEN -1 ELSE 0

_calculate_citation_diversity(cites, refs) ==
    LET venues == {lower(refs[i].venue.v) :
                      i \in {j \in 1..Len(refs) : Truthy(get(refs[j].venue, None))}}
        authors == UNION {{lower(get(refs[i].authors, Val(<<>>)).v[k]) :
                              k \in 1..Len(get(refs[i].authors, Val(<<>>)).v)} :
                          i \in 1..Len(refs)}
        venue_diversity ==
            FMin(Frac(Cardinality(venues), IF Len(refs) > 1 THEN Len(refs) ELSE 1), Frac(1, 1))
        author_diversity == FMin(Frac(Cardinality(authors), Len(refs) * 2), Frac(1, 1))
    IN  IF refs = <<>> THEN Returned(Float(Frac(0, 1), 0))
        ELSE IF \E i \in 1..Len(refs) : get(refs[i].authors, Val(<<>>)).kind = "null"
        THEN Raised
        ELSE Returned(Float(FAdd(FMul(venue_diversity, Frac(6, 10)),
                                 FMul(author_diversity, Frac(4, 10))),
                            DiversityErr(venue_diversity, author_diversity)))

\* The while loop of _explore_cluster: [cluster, visited] when the stack is empty.
RECURSIVE ExploreStack(_, _, _, _)
ExploreStack(g, stack, visited, cluster) ==
    IF stack = <<>> THEN [cluster |-> cluster, visited |-> visited]
    ELSE LET node == stack[Len(stack)]
             popped == SubSeq(stack, 1, Len(stack) - 1)
         IN  IF node \notin visited
             THEN ExploreStack(g,
                      popped \o SelectSeq(get_neighbors(g, node),
                                          LAMBDA n : n \notin visited \cup {node}),
                      visited \cup {node}, cluster \cup {node})
             ELSE ExploreStack(g, popped, visited, cluster)

_explore_cluster(g, start_node, visited) == ExploreStack(g, <<start_node>>, visited, {})

\* The loop of _find_clusters with "len(cluster) > 1" replaced by
\* "len(cluster) >= 1"
RECURSIVE ClustersFrom_keeps_singletons(_, _, _, _, _)
ClustersFrom_keeps_singletons(g, nodes, k, visited, clusters) ==
    IF k > Len(nodes) THEN clusters
    ELSE IF nodes[k] \in visited
    THEN ClustersFrom_keeps_singletons(g, nodes, k + 1, visited, clusters)
    ELSE LET explored == _explore_cluster(g, nodes[k], visited)
         IN  ClustersFrom_keeps_singletons(g, nodes, k + 1, explored.visited,
                                           Append(clusters, explored.cluster))

\* The loop of _find_clusters from nodes[k] on.
RECURSIVE ClustersFrom(_, _, _, _, _)
ClustersFrom(g, nodes, k, visited, clusters) ==
    IF k > Len(nodes) THEN clusters
    ELSE IF nodes[k] \in visited THEN ClustersFrom(g, nodes, k + 1, visited, clusters)
    ELSE LET explored == _explore_cluster(g, nodes[k], visited)
         IN  ClustersFrom(g, nodes, k + 1, explored.visited,
                          IF Cardinality(explored.cluster) > 1
                          THEN Append(clusters, explored.cluster) ELSE clusters)

_find_clusters(g, nodes) == ClustersFrom(g, nodes, 1, {}, <<>>)

\* len([p for p in patterns if p.suspicion_score > threshold])
CountAbove(pats, threshold) ==
    Cardinality({k \in 1..Len(pats) : FloatGreater(pats[k].suspicion_score, threshold)})

\* The source's "elif" replaced by "if": the two self-citation tiers add up.
_calculate_citation_risk_score_tiers_add(self_citation_rate, pats, density, diversity) ==
    LET self_risk == FAdd(IF FLess(Frac(3, 10), self_citation_rate)
                          THEN Frac(30, 100) ELSE Frac(0, 1),
                          IF FLess(Frac(2, 10), self_citation_rate)
                          THEN Frac(15, 100) ELSE Frac(0, 1))
        pattern_risk == FMin(Frac(15 * CountAbove(pats, Frac(5, 10)), 100), Frac(4, 10))
        density_risk == IF FLess(Frac(7, 10), density) THEN Frac(15, 100) ELSE Frac(0, 1)
        diversity_risk == IF FloatLess(diversity, Frac(3, 10)) THEN Frac(15, 100) ELSE Frac(0, 1)
    IN  FMin(FAdd(FAdd(FAdd(self_risk, pattern_risk), density_risk), diversity_risk),
             Frac(1, 1))

_calculate_citation_risk_score(self_citation_rate, pats, density, diversity) ==
    LET self_risk == IF FLess(Frac(3, 10), self_citation_rate) THEN Frac(30, 100)
                     ELSE IF FLess(Frac(2, 10), self_citation_rate) THEN Frac(15, 100)
                     ELSE Frac(0, 1)
        pattern_risk == FMin(Frac(15 * CountAbove(pats, Frac(5, 10)), 100), Frac(4, 10))
        density_risk == IF FLess(Frac(7, 10), density) THEN Frac(15, 100) ELSE Frac(0, 1)
        diversity_risk == IF FloatLess(diversity, Frac(3, 10)) THEN Frac(15, 100) ELSE Frac(0, 1)
    IN  FMin(FAdd(FAdd(FAdd(self_risk, pattern_risk), density_risk), diversity_risk),
             Frac(1, 1))

\* The recommendations without the test "if temporal_dist:" around the third
_generate_recommendations_without_guard(self_citation_rate, pats, diversity, temporal_dist, current_year) ==
    (IF FLess(Frac(3, 10), self_citation_rate)
     THEN <<[kind |-> "self_citation", value |-> self_citation_rate]>> ELSE <<>>)
    \o (IF FloatLess(diversity, Frac(4, 10))
        THEN <<[kind |-> "diversity", value |-> Frac(0, 1)]>> ELSE <<>>)
    \o (IF ~\E y \in DOMAIN temporal_dist : y >= current_year - RecentYears
        THEN <<[kind |-> "recent", value |-> Frac(0, 1)]>> ELSE <<>>)
    \o (IF CountAbove(pats, Frac(6, 10)) > 0
        THEN <<[kind |-> "suspicious", value |-> Frac(CountAbove(pats, Frac(6, 10)), 1)]>>
        ELSE <<>>)

\* A recommendation is the kind of its sentence and the value formatted into it.
_generate_recommendations(self_citation_rate, pats, diversity, temporal_dist, current_year) ==
    (IF FLess(Frac(3, 10), self_citation_rate)
     THEN <<[kind |-> "self_citation", value |-> self_citation_rate]>> ELSE <<>>)
    \o (IF FloatLess(diversity, Frac(4, 10))
        THEN <<[kind |-> "diversity", value |-> Frac(0, 1)]>> ELSE <<>>)
    \o (IF DOMAIN temporal_dist # {}
           /\ ~\E y \in DOMAIN temporal_dist : y >= current_year - RecentYears
        THEN <<[kind |-> "recent", value |-> Frac(0, 1)]>> ELSE <<>>)
    \o (IF CountAbove(pats, Frac(6, 10)) > 0
        THEN <<[kind |-> "suspicious", value |-> Frac(CountAbove(pats, Frac(6, 10)), 1)]>>
        ELSE <<>>)

\* The instance CitationGraphAnalyzer() returns: an extractor with its compiled
\* patterns, a graph builder and a pattern detector without attributes.
CitationGraphAnalyzer ==
    [extractor |-> [patterns |-> CITATION_PATTERNS],
     graph_builder |-> <<>>,
     pattern_detector |-> <<>>]

VARIABLES
    manuscript_text,   \* analyze's argument, a str
    references,        \* analyze's argument, a list of dicts
    author_names,      \* analyze's argument, None or a list of str
    markup,            \* the tokens manuscript_text was rendered from
    pc,                \* where the call is: start, extracted, built, detected, done, raised
    hash_order,        \* the order in which this process iterates a set of node ids
    current_year,      \* datetime.now().year
    citations,         \* the list extract_citations returned
    graph,             \* the graph build_graph returned
    patterns,          \* the list detect_patterns returned
    result,            \* the CitationAnalysisResult analyze returned
    analyzer,          \* the CitationGraphAnalyzer instance analyze is called on
    calls              \* the frames of the analyze calls that run concurrently

vars == <<manuscript_text, references, author_names, markup, hash_order, current_year,
         pc, citations, graph, patterns, result, analyzer, calls>>

inputs == <<manuscript_text, references, author_names, markup, hash_order, current_year>>

InitExtract ==
    /\ markup \in Manuscripts(ExtractTokens, MaxTokens)
    /\ manuscript_text = Render(markup)
    /\ references = <<>>
    /\ author_names = None
    /\ hash_order = <<>>
    /\ current_year = MaxOf(CurrentYears)
    /\ pc = "start"
    /\ citations = <<>>
    /\ graph = EmptyGraph
    /\ patterns = <<>>
    /\ result = <<>>
    /\ analyzer = CitationGraphAnalyzer
    /\ calls = <<>>

\* Phase 1 of analyze
ExtractCitations ==
    /\ pc = "start"
    /\ citations' = extract_citations(manuscript_text)
    /\ pc' = "extracted"
    /\ UNCHANGED <<inputs, analyzer, calls, graph, patterns, result>>

NextExtract == ExtractCitations

SpecExtract == InitExtract /\ [][NextExtract]_vars

(***************************************************************************)
(* analyze on manuscripts, reference lists and author lists.               *)
(***************************************************************************)
SmithJournalA == Ref(Val(<<Smith>>), Missing, Val(2020), Val(JournalA))

JonesConferenceB == Ref(Val(<<Jones>>), Missing, Val(2021), Val(ConferenceB))

BrownJournalA == Ref(Val(<<Brown>>), Missing, Val(2019), Val(JournalA))

RefKinds ==
    { SmithJournalA,
      \* two authors with the manuscript author's last name, the venue in lower case
      Ref(Val(<<JSmith, Smith>>), Val(<<"T">>), None, Val(JournalALower)),
      \* venue: None
      Ref(Val(<<Smith>>), None, Val(2019), None),
      \* authors: None, venue: ''
      Ref(None, Missing, Missing, Val(<<>>)),
      \* an author name that is the empty string; title, year and venue missing
      Ref(Val(<<<<>>, Smith>>), Missing, Missing, Missing) }

AuthorLists == { None, Val(<<>>), Val(<<JSmith, Jones>>), Val(<<<<>>>>) }

AnalyzeTokens == { Word(<<"s","e","e">>), Period, Single(1), Single(2), List(<<1, 2>>) }

\* The end-to-end scenario: "This study [1] builds upon previous work [2,3]."
ScenarioMarkup ==
    << Word(<<"T","h","i","s">>), Word(<<"s","t","u","d","y">>), Single(1),
       Word(<<"b","u","i","l","d","s">>), Word(<<"u","p","o","n">>),
       Word(<<"p","r","e","v","i","o","u","s">>), Word(<<"w","o","r","k">>),
       List(<<2, 3>>), Period >>

ScenarioReferences == <<SmithJournalA, JonesConferenceB, BrownJournalA>>

ScenarioAuthors == Val(<<Researcher>>)

JournalC == <<"J","o","u","r","n","a","l"," ","C">>

BrownJournalC == Ref(Val(<<Brown>>), Missing, Val(2019), Val(JournalC))

\* A reference without a venue
Jones2018 == Ref(Val(<<Jones>>), Missing, Val(2018), Missing)

\* "x [1,2,3] y": three references co-cited once in one context
TriangleMarkup == << Word(<<"x">>), List(<<1, 2, 3>>), Word(<<"y">>) >>

TriangleReferences == <<SmithJournalA, JonesConferenceB, BrownJournalC>>

\* "a [1,2]. b [2,3]. c [3,4]. d [4,5]. e [5,6]. f [6,1].": six contexts, each
\* with one pair of a cycle of six references
CycleMarkup ==
    << Word(<<"a">>), List(<<1, 2>>), Period, Word(<<"b">>), List(<<2, 3>>), Period,
       Word(<<"c">>), List(<<3, 4>>), Period, Word(<<"d">>), List(<<4, 5>>), Period,
       Word(<<"e">>), List(<<5, 6>>), Period, Word(<<"f">>), List(<<6, 1>>), Period >>

CycleReferences ==
    <<SmithJournalA, JonesConferenceB, BrownJournalC, Jones2018, Jones2018, Jones2018>>

\* "[1,2,3] [1]" with five references that have a year
FiveReferences == <<SmithJournalA, JonesConferenceB, BrownJournalC, Jones2018, Jones2018>>

\* Citation counts 5,1,1,1,1, counts 2,2,2,2,2, counts 3,3,2,1,1 (a share of
\* exactly 30%) and counts 1,1,1,1
ConcentrationMarkups ==
    { <<List(<<1, 1, 1, 1, 1, 2, 3, 4, 5>>)>>,
      <<List(<<1, 2, 3, 4, 5, 1, 2, 3, 4, 5>>)>>,
      <<List(<<1, 1, 1, 2, 2, 2, 3, 3, 4, 5>>)>>,
      <<List(<<1, 2, 3, 4>>)>>,
      <<List(<<1, 2, 3>>), Single(1)>> }

\* References 1, 3 and 2, 4 share a venue, reference 5 has none
TwoVenueReferences ==
    <<SmithJournalA, JonesConferenceB, BrownJournalA, JonesConferenceB, Jones2018>>

\* An author-year marker and the number 7 next to [1,2], with three references
OutOfRangeMarkup == << EtAl(Smith, 2020), List(<<1, 2, 7>>) >>

\* Few manuscripts with every reference list and author list; every manuscript
\* with few reference lists; the scenario and the manuscripts above.
AnalyzeInputs ==
    ({<<>>, <<List(<<1, 2>>), Single(1)>>} \X SeqsUpTo(RefKinds, MaxRefs) \X AuthorLists)
    \cup (Manuscripts(AnalyzeTokens, MaxTokens)
            \X {<<SmithJournalA, BrownJournalA>>} \X {None})
    \cup {<<ScenarioMarkup, ScenarioReferences, ScenarioAuthors>>}
    \cup {<<TriangleMarkup, TriangleReferences, None>>,
          <<CycleMarkup, CycleReferences, None>>,
          <<OutOfRangeMarkup, ScenarioReferences, None>>}
    \cup {<<<<List(<<1, 2, 3>>), Single(1)>>, FiveReferences, None>>,
          <<<<Single(5)>>, TwoVenueReferences, None>>,
          <<<<List(<<1, 1, 1>>)>>, TriangleReferences, None>>,
          <<<<Single(1)>>, <<SmithJournalA, SmithJournalA, SmithJournalA>>, Val(<<Smith>>)>>}
    \cup (ConcentrationMarkups \X {<<>>, <<SmithJournalA>>} \X {None, Val(<<Smith>>)})

Init ==
    /\ \E in \in AnalyzeInputs :
        /\ markup = in[1]
        /\ manuscript_text = Render(in[1])
        /\ references = in[2]
        /\ author_names = in[3]
    /\ hash_order \in Orders(NodeIds(Len(references)))
    /\ current_year \in CurrentYears
    /\ pc = "start"
    /\ citations = <<>>
    /\ graph = EmptyGraph
    /\ patterns = <<>>
    /\ result = <<>>
    /\ analyzer = CitationGraphAnalyzer
    /\ calls = <<>>

\* Phase 2 of analyze
BuildGraph ==
    /\ pc = "extracted"
    /\ \/ /\ CouplingRaises(references)
          /\ pc' = "raised"
          /\ UNCHANGED graph
       \/ /\ ~CouplingRaises(references)
          /\ graph' = build_graph(citations, references)
          /\ pc' = "built"
    /\ UNCHANGED <<inputs, analyzer, calls, citations, patterns, result>>

\* Phase 3 of analyze
DetectPatterns ==
    /\ pc = "built"
    /\ patterns' = detect_patterns(graph, citations, IterNodes(graph, hash_order), current_year)
    /\ pc' = "detected"
    /\ UNCHANGED <<inputs, analyzer, calls, citations, graph, result>>

\* The metrics of analyze and its return value.  manuscript_id is a fixed str
\* and analysis_timestamp the time of the call: the record leaves them out.
AnalysisResult(cites, refs, authors, g, pats, order, year) ==
    LET total_citations == Len(cites)
        unique_citations == UniqueCitations(cites)
        self_citations ==
            _count_self_citations(cites, refs, IF Truthy(authors) THEN authors.v ELSE <<>>)
        clusters == _find_clusters(g, IterNodes(g, order))
        density == _calculate_network_density(g)
        temporal_dist == _analyze_temporal_distribution(refs)
        diversity == _calculate_citation_diversity(cites, refs)
        self_citation_rate ==
            Frac(self_citations.value, IF total_citations > 1 THEN total_citations ELSE 1)
    IN  IF self_citations.raised \/ diversity.raised THEN Raised
        ELSE Returned(
                [total_citations |-> total_citations,
                 unique_citations |-> unique_citations,
                 self_citations |-> self_citations.value,
                 self_citation_rate |-> self_citation_rate,
                 citation_clusters |-> clusters,
                 suspicious_patterns |->
                    SelectSeq(pats, LAMBDA p : FloatGreater(p.suspicion_score, Frac(5, 10))),
                 citation_network_density |-> density,
                 temporal_distribution |-> temporal_dist,
                 author_citation_diversity |-> diversity.value,
                 risk_score |->
                    _calculate_citation_risk_score(self_citation_rate, pats, density,
                                                   diversity.value),
                 recommendations |->
                    _generate_recommendations(self_citation_rate, pats, diversity.value,
                                              temporal_dist, year)])

ComputeResult ==
    LET r == AnalysisResult(citations, references, author_names, graph, patterns,
                            hash_order, current_year)
    IN  /\ pc = "detected"
        /\ \/ /\ r.raised
              /\ pc' = "raised"
              /\ UNCHANGED result
           \/ /\ ~r.raised
              /\ result' = r.value
              /\ pc' = "done"
        /\ UNCHANGED <<inputs, analyzer, calls, citations, graph, patterns>>

Next == ExtractCitations \/ BuildGraph \/ DetectPatterns \/ ComputeResult

Spec == Init /\ [][Next]_vars

(***************************************************************************)
(* Concurrent calls of analyze on one CitationGraphAnalyzer instance, with *)
(* the caller's reference list and author list shared by the calls.  Each  *)
(* call has a frame with its arguments as they were when the call was made *)
(* and its local variables; a step of a call is one phase of analyze, and  *)
(* the phases of the calls interleave.                                     *)
(***************************************************************************)
Frame(text, refs, authors) ==
    [pc |-> "start", manuscript_text |-> text, references |-> refs,
     author_names |-> authors, citations |-> <<>>, graph |-> EmptyGraph,
     patterns |-> <<>>, result |-> <<>>]

\* The phases of a call: the instance and the frame after the phase.  No phase
\* assigns an attribute of the instance or of one of its three components.
extract_phase(self, frame) ==
    [self |-> self,
     frame |-> [frame EXCEPT !.citations = extract_citations(frame.manuscript_text),
                             !.pc = "extracted"]]

\* A graph builder that keeps the graph it built as an attribute
build_phase_graph_on_instance(self, frame, refs) ==
    IF CouplingRaises(refs) THEN [self |-> self, frame |-> [frame EXCEPT !.pc = "raised"]]
    ELSE LET g == build_graph(frame.citations, refs)
         IN  [self |-> [self EXCEPT !.graph_builder = <<g>>],
              frame |-> [frame EXCEPT !.graph = g, !.pc = "built"]]

build_phase(self, frame, refs) ==
    [self |-> self,
     frame |->
        IF CouplingRaises(refs) THEN [frame EXCEPT !.pc = "raised"]
        ELSE [frame EXCEPT !.graph = build_graph(frame.citations, refs), !.pc = "built"]]

detect_phase(self, frame, order, year) ==
    [self |-> self,
     frame |->
        [frame EXCEPT !.patterns = detect_patterns(frame.graph, frame.citations,
                                                   IterNodes(frame.graph, order), year),
                      !.pc = "detected"]]

result_phase(self, frame, refs, authors, order, year) ==
    [self |-> self,
     frame |->
        LET r == AnalysisResult(frame.citations, refs, authors, frame.graph,
                                frame.patterns, order, year)
        IN  IF r.raised THEN [frame EXCEPT !.pc = "raised"]
            ELSE [frame EXCEPT !.result = r.value, !.pc = "done"]]

\* analyze run alone on a fresh instance, from the call to its return or its
\* exception
RunAlone(text, refs, authors, order, year) ==
    LET extracted == extract_phase(CitationGraphAnalyzer, Frame(text, refs, authors))
        built == build_phase(extracted.self, extracted.frame, refs)
        detected == detect_phase(built.self, built.frame, order, year)
    IN  IF built.frame.pc = "raised" THEN built.frame
        ELSE result_phase(detected.self, detected.frame, refs, authors, order, year).frame

ConcurrentTexts ==
    { <<>>, <<Single(2)>>, <<List(<<1, 2>>), Single(1)>>, TriangleMarkup, OutOfRangeMarkup }

ConcurrentReferences ==
    { <<>>, <<SmithJournalA, BrownJournalA>>, TriangleReferences,
      <<SmithJournalA, Ref(Val(<<Smith>>), None, Val(2019), None)>>,
      <<Ref(None, Missing, Missing, Val(<<>>)), SmithJournalA>> }

InitConcurrent ==
    /\ markup = <<>>
    /\ manuscript_text = <<>>
    /\ references \in ConcurrentReferences
    /\ author_names \in {None, Val(<<JSmith, Jones>>)}
    /\ hash_order \in Orders(NodeIds(Len(references)))
    /\ current_year = MaxOf(CurrentYears)
    /\ pc = "start"
    /\ citations = <<>>
    /\ graph = EmptyGraph
    /\ patterns = <<>>
    /\ result = <<>>
    /\ analyzer = CitationGraphAnalyzer
    /\ \E t1 \in ConcurrentTexts, t2 \in ConcurrentTexts :
          calls = <<Frame(Render(t1), references, author_names),
                    Frame(Render(t2), references, author_names)>>

Resume(c, after) ==
    /\ analyzer' = after.self
    /\ calls' = [calls EXCEPT ![c] = after.frame]
    /\ UNCHANGED <<inputs, pc, citations, graph, patterns, result>>

CallExtract ==
    \E c \in DOMAIN calls :
        /\ calls[c].pc = "start"
        /\ Resume(c, extract_phase(analyzer, calls[c]))

CallBuild ==
    \E c \in DOMAIN calls :
        /\ calls[c].pc = "extracted"
        /\ Resume(c, build_phase(analyzer, calls[c], references))

CallDetect ==
    \E c \in DOMAIN calls :
        /\ calls[c].pc = "built"
        /\ Resume(c, detect_phase(analyzer, calls[c], hash_order, current_year))

CallResult ==
    \E c \in DOMAIN calls :
        /\ calls[c].pc = "detected"
        /\ Resume(c, result_phase(analyzer, calls[c], references, author_names,
                                  hash_order, current_year))

NextConcurrent == CallExtract \/ CallBuild \/ CallDetect \/ CallResult

SpecConcurrent == InitConcurrent /\ [][NextConcurrent]_vars

(***************************************************************************)
(* What the markup says about the manuscript: the sentence a token is in   *)
(* (0-based) and the offset of the token in that sentence.                 *)
(***************************************************************************)
PeriodsBefore(k) == {j \in 1..(k - 1) : markup[j].kind = "period"}

SentenceOfToken(k) == Cardinality(PeriodsBefore(k))

SentenceStart(k) == IF PeriodsBefore(k) = {} THEN 1 ELSE MaxOf(PeriodsBefore(k)) + 1

OffsetOfToken(k) ==
    IF k = SentenceStart(k) THEN 0
    ELSE Len(Render(SubSeq(markup, SentenceStart(k), k - 1))) + 1

\* The citations of the marker that is token k, in the order of the output.
CitationsOfToken(k) ==
    SelectSeq(citations,
              LAMBDA c : c.sentence_index = SentenceOfToken(k) /\ c.position = OffsetOfToken(k))

IdsOf(cites) == [j \in 1..Len(cites) |-> cites[j].reference_id]

NoIdTwice(ids) == \A i, j \in 1..Len(ids) : i # j => ids[i] # ids[j]

\* The marker grammars that match at token k.
GrammarsAtToken(k) ==
    LET sentence == _split_sentences(manuscript_text)[SentenceOfToken(k) + 1]
    IN  {p \in 1..Len(CITATION_PATTERNS) :
            \E m \in {finditer(CITATION_PATTERNS[p], sentence, 1)[x] :
                        x \in 1..Len(finditer(CITATION_PATTERNS[p], sentence, 1))} :
                m.start = OffsetOfToken(k)}

\* A numeric marker the claim speaks of: [n], [n, m, ...], or [n-m] with n <= m.
NumericMarker(tok) ==
    \/ tok.kind \in {"single", "list", "listsp"}
    \/ tok.kind = "range" /\ int(tok.a[1]) <= int(tok.a[2])

\* The ids the marker resolves to: the listed numbers, or n, n+1, ..., m.
ResolvedIds(tok) ==
    IF tok.kind = "range"
    THEN [j \in 1..(int(tok.a[2]) - int(tok.a[1]) + 1) |-> str(int(tok.a[1]) + j - 1)]
    ELSE tok.a

NumericMarkersResolved ==
    \A k \in 1..Len(markup) :
        NumericMarker(markup[k]) =>
            /\ IdsOf(CitationsOfToken(k)) = ResolvedIds(markup[k])
            /\ Cardinality(GrammarsAtToken(k)) = 1

(***************************************************************************)
(* C1.  analyze always returns a result and never raises, for every text,  *)
(* every reference list (records with title, year, venue or authors        *)
(* missing or None, an author name that is the empty string) and every     *)
(* author_names (None, empty, containing an empty string).                 *)
(* The code raises: venue None, authors None, or a name without a word.    *)
(***************************************************************************)
C1_AnalyzeNeverRaises == pc # "raised"

(***************************************************************************)
(* C2.  The end-to-end scenario: "This study [1] builds upon previous work *)
(* [2,3]." with the references Smith 2020 Journal A, Jones 2021            *)
(* Conference B, Brown 2019 Journal A and author_names ["Researcher"]      *)
(* returns total_citations 3, unique_citations 3, self_citations 0 and     *)
(* self_citation_rate 0.                                                   *)
(***************************************************************************)
ScenarioText ==
    <<"T","h","i","s"," ","s","t","u","d","y"," ","[","1","]"," ","b","u","i","l","d","s"," ",
      "u","p","o","n"," ","p","r","e","v","i","o","u","s"," ","w","o","r","k"," ",
      "[","2",",","3","]",".">>

IsScenario ==
    /\ manuscript_text = ScenarioText
    /\ references = ScenarioReferences
    /\ author_names = ScenarioAuthors

C2_EndToEndScenario ==
    IsScenario =>
        /\ pc # "raised"
        /\ pc = "done" =>
            /\ result.total_citations = 3
            /\ result.unique_citations = 3
            /\ result.self_citations = 0
            /\ result.self_citation_rate.num = 0

C2_ScenarioReturned == IsScenario /\ pc = "done"

(***************************************************************************)
(* C3.  Every bracketed numeric marker yields one citation per resolved    *)
(* id: [n] one with id n; [n, m, ...] one per listed number in listed      *)
(* order; [n-m] with n <= m the ids n, ..., m.  Each marker is matched by  *)
(* exactly one of the four grammars.                                       *)
(* As claimed, a marker never contributes the same id twice; [1,1] does.   *)
(* As amended, a single or range marker never contributes an id twice and  *)
(* a list marker contributes an id as many times as the id is listed.      *)
(***************************************************************************)
C3_NumericMarkersNoIdTwice ==
    pc = "extracted" =>
        /\ NumericMarkersResolved
        /\ \A k \in 1..Len(markup) :
              NumericMarker(markup[k]) => NoIdTwice(IdsOf(CitationsOfToken(k)))

C3_NumericMarkers ==
    pc = "extracted" =>
        /\ NumericMarkersResolved
        /\ \A k \in 1..Len(markup) :
              NumericMarker(markup[k]) /\ ~NoIdTwice(IdsOf(CitationsOfToken(k)))
                  => markup[k].kind \in {"list", "listsp"} /\ ~NoIdTwice(markup[k].a)

C3_RangeAndListExtracted ==
    /\ pc = "extracted"
    /\ \E k \in 1..Len(markup) :
          markup[k] = Range(2, 4) /\ Len(CitationsOfToken(k)) = 3
    /\ \E k \in 1..Len(markup) :
          markup[k] = ListSp(<<2, 3>>) /\ Len(CitationsOfToken(k)) = 2

(***************************************************************************)
(* C4.  Every author-year marker, (Name et al., YYYY) or (Name and Name,   *)
(* YYYY), yields exactly one citation.                                     *)
(* The code yields two: the captured text is split at its comma.           *)
(***************************************************************************)
C4_OneCitationPerAuthorYearMarker ==
    pc = "extracted" =>
        \A k \in 1..Len(markup) :
            markup[k].kind \in {"etal", "and"} => Len(CitationsOfToken(k)) = 1

(***************************************************************************)
(* C5.  The output of extract_citations is ordered by position in the      *)
(* manuscript: the citations of a marker in an earlier sentence, or        *)
(* earlier in the same sentence, come first, whichever grammar matched.    *)
(* The code orders by grammar first.                                       *)
(***************************************************************************)
OccursBefore(a, b) ==
    \/ a.sentence_index < b.sentence_index
    \/ a.sentence_index = b.sentence_index /\ a.position < b.position

C5_OrderedByPosition ==
    pc = "extracted" =>
        \A i, j \in 1..Len(citations) :
            OccursBefore(citations[i], citations[j]) => i < j

(***************************************************************************)
(* C6.  unique_citations <= total_citations, with equality exactly when no *)
(* reference id occurs in more than one extracted citation.                *)
(***************************************************************************)
C6_UniqueAtMostTotal ==
    pc = "done" =>
        /\ result.unique_citations <= result.total_citations
        /\ (result.unique_citations = result.total_citations) <=> NoIdTwice(IdsOf(citations))

C6_RepeatedIdReturned ==
    /\ pc = "done"
    /\ ~NoIdTwice(IdsOf(citations))
    /\ result.unique_citations >= 2

(***************************************************************************)
(* C7.  self_citations is the number of reference entries, each counted    *)
(* once, with an author whose lower-cased last-name token is that of a     *)
(* manuscript author; it is 0 when author_names is empty or absent; and    *)
(* self_citation_rate = self_citations / max(total_citations, 1).          *)
(***************************************************************************)
ManuscriptAuthors == IF author_names.kind = "value" THEN author_names.v ELSE <<>>

HasLastName(name) == NameWords(name) # <<>>

\* The authors of reference i whose last name is a manuscript author's.
SelfAuthors(i) ==
    IF references[i].authors.kind # "value" THEN {}
    ELSE {k \in 1..Len(references[i].authors.v) :
            /\ HasLastName(references[i].authors.v[k])
            /\ \E n \in 1..Len(ManuscriptAuthors) :
                  /\ HasLastName(ManuscriptAuthors[n])
                  /\ LastName(references[i].authors.v[k]) = LastName(ManuscriptAuthors[n])}

SelfCitedReferences == {i \in 1..Len(references) : SelfAuthors(i) # {}}

C7_SelfCitations ==
    pc = "done" =>
        /\ result.self_citations = Cardinality(SelfCitedReferences)
        /\ ManuscriptAuthors = <<>> => result.self_citations = 0
        /\ result.self_citation_rate.num * (IF Len(citations) > 1 THEN Len(citations) ELSE 1)
              = result.self_citations * result.self_citation_rate.den

C7_TwoMatchingAuthorsCountedOnce ==
    /\ pc = "done"
    /\ \E i \in 1..Len(references) : Cardinality(SelfAuthors(i)) = 2
    /\ result.self_citations = 1
    /\ Len(citations) > 1

(***************************************************************************)
(* C8.  Whenever the reference list is empty or no citation was extracted, *)
(* the result has citation_network_density 0, author_citation_diversity 0  *)
(* and self_citation_rate 0.                                               *)
(* With references and no citation the code computes all three from the    *)
(* references.                                                             *)
(***************************************************************************)
C8_NeutralWithoutReferencesOrCitations ==
    pc = "done" /\ (references = <<>> \/ citations = <<>>) =>
        /\ result.citation_network_density.num = 0
        /\ result.author_citation_diversity.num = 0
        /\ result.self_citation_rate.num = 0

(***************************************************************************)
(* C9.  self_citation_rate lies in [0, 1]: self_citations never exceeds    *)
(* max(total_citations, 1).                                                *)
(* The code counts references, cited or not, over the number of citations. *)
(***************************************************************************)
C9_SelfCitationRateInUnitInterval ==
    pc = "done" =>
        /\ ~FLess(result.self_citation_rate, Frac(0, 1))
        /\ ~FLess(Frac(1, 1), result.self_citation_rate)
        /\ result.self_citations <= (IF result.total_citations > 1
                                     THEN result.total_citations ELSE 1)

(***************************************************************************)
(* C10.  citation_network_density lies in [0, 1]: the edge list never has  *)
(* more than N x (N-1) entries for N graph nodes.                          *)
(* The co-citation pass adds an edge for every pair of positions of a      *)
(* context group, repeated ids included.                                   *)
(***************************************************************************)
C10_DensityInUnitInterval ==
    pc = "done" =>
        /\ ~FLess(result.citation_network_density, Frac(0, 1))
        /\ ~FLess(Frac(1, 1), result.citation_network_density)

(***************************************************************************)
(* C11.  citation_network_density is the number of entries of the edge     *)
(* list over N x (N-1), N the number of graph nodes, and 0 when N < 2; for *)
(* three references with pairwise distinct venues that are cited once each *)
(* in one context (a triangle of 3 edges) it is 3/6.                       *)
(***************************************************************************)
\* Three references with pairwise distinct venues, cited once each in one context
IsTriangle ==
    /\ Len(references) = 3
    /\ \A i, j \in 1..3 :
          i # j => lower(get(references[i].venue, Val(<<>>)).v)
                      # lower(get(references[j].venue, Val(<<>>)).v)
    /\ Len(citations) = 3
    /\ {citations[k].reference_id : k \in 1..3} = NodeIds(3)
    /\ \A j, k \in 1..3 : ContextKey(citations[j]) = ContextKey(citations[k])

C11_Density ==
    pc = "done" =>
        LET N == Cardinality(graph.nodes)
        IN  /\ N < 2 => result.citation_network_density = Frac(0, 1)
            /\ N >= 2 => FEq(result.citation_network_density,
                             Frac(Len(graph.edges), N * (N - 1)))
            /\ IsTriangle => /\ Len(graph.edges) = 3
                             /\ FEq(result.citation_network_density, Frac(3, 6))

C11_TriangleReturned ==
    pc = "done" /\ IsTriangle /\ FEq(result.citation_network_density, Frac(1, 2))

(***************************************************************************)
(* C12.  detect_patterns emits a citation_concentration pattern if and     *)
(* only if there is a citation and the largest number of citations of one  *)
(* reference id strictly exceeds 30% of the number of citations            *)
(* (10 x max > 3 x total); it emits at most one; its affected_references   *)
(* are exactly the ids tied for the maximum, and its suspicion is          *)
(* min(1.5 x share, 1.0).  Counts 5,1,1,1,1 give a pattern, counts         *)
(* 2,2,2,2,2 give none.                                                    *)
(***************************************************************************)
PatternsOfType(ty) == SelectSeq(patterns, LAMBDA p : p.pattern_type = ty)

CitedIds == {citations[k].reference_id : k \in 1..Len(citations)}

TimesCited(id) == Cardinality({k \in 1..Len(citations) : citations[k].reference_id = id})

MostCited == MaxOf({TimesCited(id) : id \in CitedIds})

\* The numbers of citations of the ids, as a bag: count -> number of ids
CountsAre(counts) ==
    /\ Cardinality(CitedIds) = Len(counts)
    /\ \A c \in 1..Len(citations) :
          Cardinality({id \in CitedIds : TimesCited(id) = c})
              = Cardinality({k \in 1..Len(counts) : counts[k] = c})

C12_Concentration ==
    pc \in {"detected", "done"} =>
        LET found == PatternsOfType("citation_concentration")
        IN  /\ Len(found) <= 1
            /\ Len(found) = 1 <=>
                  (citations # <<>> /\ 10 * MostCited > 3 * Len(citations))
            /\ Len(found) = 1 =>
                  /\ {found[1].affected_references[k] :
                         k \in 1..Len(found[1].affected_references)}
                        = {id \in CitedIds : TimesCited(id) = MostCited}
                  /\ NoIdTwice(found[1].affected_references)
                  /\ FEq(found[1].suspicion_score,
                         FMin(Frac(3 * MostCited, 2 * Len(citations)), Frac(1, 1)))
            /\ CountsAre(<<5, 1, 1, 1, 1>>) => Len(found) = 1
            /\ CountsAre(<<2, 2, 2, 2, 2>>) => Len(found) = 0

C12_FiveOfNineOnOneReference ==
    /\ pc = "detected"
    /\ CountsAre(<<5, 1, 1, 1, 1>>)
    /\ Len(PatternsOfType("citation_concentration")) = 1
    /\ PatternsOfType("citation_concentration")[1].affected_references = <<str(1)>>

(***************************************************************************)
(* C13.  For three references A, B, C that are pairwise co-cited (the      *)
(* graph contains the triangle A-B, A-C, B-C), detect_patterns emits at    *)
(* least one pattern of type citation_cartel.                              *)
(***************************************************************************)
Joined(a, b) == InSeq(<<a, b>>, graph.edges) \/ InSeq(<<b, a>>, graph.edges)

HasTriangle ==
    \E a, b, c \in graph.nodes :
        /\ a # b /\ a # c /\ b # c
        /\ Joined(a, b) /\ Joined(a, c) /\ Joined(b, c)

C13_TriangleGivesCartel ==
    pc \in {"detected", "done"} /\ HasTriangle =>
        Len(PatternsOfType("citation_cartel")) >= 1

C13_TriangleDetected ==
    /\ pc = "detected"
    /\ IsTriangle /\ HasTriangle
    /\ \E k \in 1..Len(patterns) :
          /\ patterns[k].pattern_type = "citation_cartel"
          /\ patterns[k].evidence[1] = 3

(***************************************************************************)
(* C14.  risk_score = min(1.0, s + p + d + v): s is 0.30 if                *)
(* self_citation_rate > 0.3, else 0.15 if it is > 0.2, else 0 (the tiers   *)
(* never add up); p is min(0.15 x k, 0.4), k the number of detected        *)
(* patterns whose suspicion exceeds 0.5; d is 0.15 if the density is       *)
(* > 0.7, else 0; v is 0.15 if the diversity is < 0.3, else 0.  The score  *)
(* lies in [0, 1].                                                         *)
(***************************************************************************)
SelfRisk ==
    IF FLess(Frac(3, 10), result.self_citation_rate) THEN Frac(30, 100)
    ELSE IF FLess(Frac(2, 10), result.self_citation_rate) THEN Frac(15, 100)
    ELSE Frac(0, 1)

SuspiciousCount ==
    Cardinality({k \in 1..Len(patterns) : FloatGreater(patterns[k].suspicion_score, Frac(5, 10))})

PatternRisk == FMin(Frac(15 * SuspiciousCount, 100), Frac(4, 10))

DensityRisk ==
    IF FLess(Frac(7, 10), result.citation_network_density) THEN Frac(15, 100) ELSE Frac(0, 1)

DiversityRisk ==
    IF FloatLess(result.author_citation_diversity, Frac(3, 10)) THEN Frac(15, 100)
    ELSE Frac(0, 1)

C14_RiskScore ==
    pc = "done" =>
        /\ FEq(result.risk_score,
               FMin(Frac(1, 1),
                    FAdd(FAdd(SelfRisk, PatternRisk), FAdd(DensityRisk, DiversityRisk))))
        /\ ~FLess(result.risk_score, Frac(0, 1))
        /\ ~FLess(Frac(1, 1), result.risk_score)

\* Three suspicious patterns: the pattern risk is capped at 0.4
C14_PatternRiskCapped ==
    /\ pc = "done"
    /\ SuspiciousCount = 3
    /\ FEq(result.risk_score, FAdd(Frac(4, 10), FAdd(DensityRisk, DiversityRisk)))

(***************************************************************************)
(* C15.  Determinism: two calls of analyze with the same manuscript text,  *)
(* reference list and author_names, made in the same current year, return  *)
(* results equal in every field but the timestamp (clusters, suspicious    *)
(* patterns with their order and affected references, risk score,          *)
(* recommendations, ...).  The second call is the call whose iteration     *)
(* over the node set runs in the order `order`; the fields that do not     *)
(* read the node set are functions of the inputs alone.                    *)
(***************************************************************************)
PatternsIn(order) ==
    detect_patterns(graph, citations, IterNodes(graph, order), current_year)

SuspiciousIn(order) ==
    SelectSeq(PatternsIn(order), LAMBDA p : FloatGreater(p.suspicion_score, Frac(5, 10)))

C15_Deterministic ==
    pc = "done" =>
        \A order \in Orders(NodeIds(Len(references))) :
            /\ _find_clusters(graph, IterNodes(graph, order)) = result.citation_clusters
            /\ SuspiciousIn(order) = result.suspicious_patterns
            /\ _calculate_citation_risk_score(result.self_citation_rate, PatternsIn(order),
                                              result.citation_network_density,
                                              result.author_citation_diversity)
                 = result.risk_score
            /\ _generate_recommendations(result.self_citation_rate, PatternsIn(order),
                                         result.author_citation_diversity,
                                         result.temporal_distribution, current_year)
                 = result.recommendations

(***************************************************************************)
(* C16.  analyze reads and writes no state shared between calls: it        *)
(* modifies neither the analyzer instance nor the caller's reference list  *)
(* and author list, and its graph and pattern list are local to the call.  *)
(* Under every interleaving of concurrent calls on one instance each call  *)
(* ends as it ends when it runs alone, with the same result or exception:  *)
(* the instance is as the constructor left it, the caller's lists are what *)
(* they were when the calls were made, and every finished call has the     *)
(* outcome of the same call run alone.                                     *)
(***************************************************************************)
EndsAsAlone(c) ==
    calls[c].pc \in {"done", "raised"} =>
        calls[c] = RunAlone(calls[c].manuscript_text, calls[c].references,
                            calls[c].author_names, hash_order, current_year)

C16_NoSharedState ==
    /\ analyzer = CitationGraphAnalyzer
    /\ \A c \in DOMAIN calls :
        /\ references = calls[c].references
        /\ author_names = calls[c].author_names
        /\ EndsAsAlone(c)

\* A call has returned while the other call, on the same instance and with
\* another graph, is between two of its phases
C16_ReturnedWhileOtherRuns ==
    /\ Len(calls) = 2
    /\ calls[2].pc = "done"
    /\ calls[2].result.total_citations > 0
    /\ calls[1].pc = "built"
    /\ calls[1].graph.edges # <<>>
    /\ calls[1].graph.edges # calls[2].graph.edges

(***************************************************************************)
(* C17.  In the graph build_graph returns every edge has both endpoints in *)
(* the node set, and the node set is the set of the ids 1..N of the N      *)
(* references: a citation whose reference id is outside 1..N (a number out *)
(* of range, or an id that is not a number) never becomes a node and never *)
(* becomes an endpoint of a co-citation or coupling edge.                  *)
(***************************************************************************)
GraphBuilt == pc \in {"built", "detected", "done"}

Endpoints == UNION {{graph.edges[k][1], graph.edges[k][2]} : k \in 1..Len(graph.edges)}

UnknownIds ==
    {citations[k].reference_id : k \in 1..Len(citations)} \ NodeIds(Len(references))

C17_EdgesWithinNodes ==
    GraphBuilt =>
        /\ graph.nodes = NodeIds(Len(references))
        /\ Endpoints \subseteq graph.nodes
        /\ UnknownIds \cap (graph.nodes \cup Endpoints) = {}
        /\ DOMAIN graph.edge_attributes \subseteq graph.nodes \X graph.nodes

\* "(Smith et al., 2020) [1,2,7]" with three references: the ids
\* "Smith et al., 2020" and "7" are cited next to 1 and 2, which are joined
C17_OutOfRangeCitedWithKnown ==
    /\ GraphBuilt
    /\ str(7) \in UnknownIds
    /\ \E id \in UnknownIds : Len(id) > 1
    /\ Joined(str(1), str(2))

(***************************************************************************)
(* C18.  In the graph build_graph returns each unordered pair of           *)
(* references is joined by at most one co-citation edge, whether the pair  *)
(* recurs inside one context group or in two context groups.               *)
(***************************************************************************)
IsCoCitation(k) == graph.edge_attributes[graph.edges[k]].type = "co-citation"

SamePair(i, j) ==
    {graph.edges[i][1], graph.edges[i][2]} = {graph.edges[j][1], graph.edges[j][2]}

C18_OneCoCitationEdgePerPair ==
    GraphBuilt =>
        \A i, j \in 1..Len(graph.edges) :
            (i < j /\ IsCoCitation(i) /\ IsCoCitation(j)) => ~SamePair(i, j)

(***************************************************************************)
(* C19.  The ring search _find_ring_size terminates on every finite graph  *)
(* and its recursion depth never exceeds the number of nodes: every        *)
(* recursive call extends the current path by a node not yet on it.  The   *)
(* searches are those of _detect_citation_cartels: one for every node and  *)
(* every entry of its neighbour list.                                      *)
(***************************************************************************)
RingSearches ==
    UNION {{_find_ring_size(graph, node, get_neighbors(graph, node)[j]) :
                j \in 1..Len(get_neighbors(graph, node))} : node \in graph.nodes}

C19_RingSearchBounded ==
    pc = "detected" =>
        \A search \in RingSearches :
            /\ search.depth <= Cardinality(graph.nodes)
            /\ ~search.revisit

\* A search that went down a path through all the other nodes of a graph of
\* six nodes
C19_DeepSearch ==
    /\ pc = "detected"
    /\ Cardinality(graph.nodes) = 6
    /\ \E search \in RingSearches : search.depth = 5

(***************************************************************************)
(* C20.  The ring size _find_ring_size(graph, A, B) computes is the        *)
(* greatest number of distinct nodes on a path from A over B that closes   *)
(* back to A.  In particular, in a graph that is one simple cycle of       *)
(* k >= 3 nodes the ring size of every adjacent pair is k, and the         *)
(* citation_cartel pattern of the pair has suspicion min(k/10, 1.0).       *)
(***************************************************************************)
Adjacent(n) == {m \in graph.nodes : Joined(n, m)}

IsSimpleCycle ==
    /\ Cardinality(graph.nodes) >= 3
    /\ Len(graph.edges) = Cardinality(graph.nodes)
    /\ \A n \in graph.nodes : Cardinality(Adjacent(n)) = 2 /\ n \notin Adjacent(n)
    /\ Len(_find_clusters(graph, IterNodes(graph, hash_order))) = 1

C20_CycleRingSize ==
    (pc = "detected" /\ IsSimpleCycle) =>
        LET k == Cardinality(graph.nodes)
        IN  /\ \A a \in graph.nodes : \A b \in Adjacent(a) :
                    _find_ring_size(graph, a, b).ring = k
            /\ \A i \in 1..Len(patterns) :
                    patterns[i].pattern_type = "citation_cartel" =>
                        /\ patterns[i].evidence[1] = k
                        /\ FEq(patterns[i].suspicion_score, FMin(Frac(k, 10), Frac(1, 1)))

(***************************************************************************)
(* C21.  A citation_cartel pattern is emitted for a pair (A, B) only if    *)
(* the graph has a cycle through A and B of at least 3 distinct nodes: the *)
(* ring size of a pattern never exceeds the number of nodes of the graph,  *)
(* and a graph whose only edge is A-B yields no citation_cartel pattern.   *)
(***************************************************************************)
Cartels == PatternsOfType("citation_cartel")

C21_CartelNeedsCycle ==
    pc = "detected" =>
        /\ \A i \in 1..Len(Cartels) : Cartels[i].evidence[1] <= Cardinality(graph.nodes)
        /\ Len(graph.edges) = 1 => Cartels = <<>>

(***************************************************************************)
(* C22.  The node set of the graph build_graph returns is exactly          *)
(* {"1", ..., "N"} for a reference list of length N (empty for N = 0),     *)
(* whichever references the text cites, and each node carries the year,    *)
(* venue and authors of the reference at that position (None, '' and []    *)
(* for a reference without the key).                                       *)
(***************************************************************************)
Carries(attribute, entry, default) ==
    IF entry = Missing THEN attribute = default ELSE attribute = entry

C22_NodesAreReferences ==
    GraphBuilt =>
        /\ graph.nodes = {str(i) : i \in 1..Len(references)}
        /\ DOMAIN graph.node_attributes = graph.nodes
        /\ \A i \in 1..Len(references) :
            LET attributes == graph.node_attributes[str(i)]
            IN  /\ Carries(attributes.year, references[i].year, None)
                /\ Carries(attributes.venue, references[i].venue, Val(<<>>))
                /\ Carries(attributes.authors, references[i].authors, Val(<<>>))

\* Three references with different attributes; the text cites 1, 2 and the
\* unknown 7 and leaves reference 3 out
C22_UncitedReferenceIsNode ==
    /\ GraphBuilt
    /\ Len(references) = 3
    /\ str(3) \notin CitedIds
    /\ str(7) \in CitedIds
    /\ graph.node_attributes[str(1)] # graph.node_attributes[str(3)]

(***************************************************************************)
(* C23.  After build_graph every unordered pair of distinct references     *)
(* with the same non-empty lower-cased venue is joined by at least one     *)
(* edge.  A coupling edge is added for such a pair only when no edge, of   *)
(* either type and in either orientation, joins it already: no pair has a  *)
(* co-citation edge and a coupling edge, and none has two coupling edges.  *)
(* References with an empty or missing venue get no coupling edge.         *)
(***************************************************************************)
VenueKey(id) ==
    LET i == CHOOSE i \in 1..Len(references) : str(i) = id
    IN  lower(get(references[i].venue, Val(<<>>)).v)

IsCoupling(k) == graph.edge_attributes[graph.edges[k]].type = "coupling"

C23_Coupling ==
    GraphBuilt =>
        /\ \A a, b \in graph.nodes :
              (a # b /\ VenueKey(a) # <<>> /\ VenueKey(a) = VenueKey(b)) => Joined(a, b)
        /\ \A k \in 1..Len(graph.edges) :
              IsCoupling(k) =>
                /\ \A m \in 1..Len(graph.edges) : m # k => ~SamePair(k, m)
                /\ graph.edges[k][1] # graph.edges[k][2]
                /\ VenueKey(graph.edges[k][1]) # <<>>
                /\ VenueKey(graph.edges[k][1]) = VenueKey(graph.edges[k][2])

\* A coupling edge added to a graph that has a co-citation edge
C23_CouplingNextToCoCitation ==
    /\ GraphBuilt
    /\ \E k \in 1..Len(graph.edges) : IsCoupling(k)
    /\ \E k \in 1..Len(graph.edges) : IsCoCitation(k)

(***************************************************************************)
(* C24.  citation_clusters is exactly the set of the connected components  *)
(* of the graph with at least 2 nodes: the clusters are pairwise disjoint, *)
(* each is connected and maximal (no edge leaves it), every node with an   *)
(* edge to another node lies in exactly one cluster and a node without     *)
(* such an edge in none.  The component search terminates.                 *)
(***************************************************************************)
RECURSIVE Component(_)
Component(S) ==
    LET T == S \cup {m \in graph.nodes : \E n \in S : Joined(n, m)}
    IN  IF T = S THEN S ELSE Component(T)

Components == {Component({n}) : n \in graph.nodes}

ClustersWith(n) ==
    {k \in 1..Len(result.citation_clusters) : n \in result.citation_clusters[k]}

C24_ClustersAreComponents ==
    pc = "done" =>
        LET clusters == result.citation_clusters
        IN  /\ {clusters[k] : k \in 1..Len(clusters)}
                    = {c \in Components : Cardinality(c) >= 2}
            /\ \A i, j \in 1..Len(clusters) : i # j => clusters[i] \cap clusters[j] = {}
            /\ \A k \in 1..Len(clusters) : \A n \in clusters[k] : \A m \in graph.nodes :
                    Joined(n, m) => m \in clusters[k]
            /\ \A n \in graph.nodes :
                    Cardinality(ClustersWith(n))
                        = IF \E m \in graph.nodes : m # n /\ Joined(n, m) THEN 1 ELSE 0

\* Two clusters of two nodes each and a node in no cluster
C24_TwoClusters ==
    /\ pc = "done"
    /\ Len(result.citation_clusters) = 2
    /\ \E n \in graph.nodes : ClustersWith(n) = {}

(***************************************************************************)
(* C25.  The clustering detector computes, for each node with at least 2   *)
(* neighbours (each distinct adjacent node counted once), the local        *)
(* coefficient (neighbour pairs joined by an edge) / (neighbour pairs),    *)
(* in [0, 1].  It emits exactly one excessive_clustering pattern, with all *)
(* graph nodes as affected_references and suspicion min(average, 1.0), if  *)
(* and only if the graph has at least 3 nodes, at least one node           *)
(* qualifies and the average over the qualifying nodes exceeds 0.7;        *)
(* otherwise it emits none.                                                *)
(***************************************************************************)
DistinctNeighbours(n) == Adjacent(n) \ {n}

Qualifying == {n \in graph.nodes : Cardinality(DistinctNeighbours(n)) >= 2}

NeighbourPairs(n) ==
    {pair \in SUBSET DistinctNeighbours(n) : Cardinality(pair) = 2}

LocalCoefficient(n) ==
    Frac(Cardinality({pair \in NeighbourPairs(n) : \E p, q \in pair : p # q /\ Joined(p, q)}),
         Cardinality(NeighbourPairs(n)))

RECURSIVE SumOfCoefficients(_)
SumOfCoefficients(S) ==
    IF S = {} THEN Frac(0, 1)
    ELSE LET n == CHOOSE n \in S : TRUE
         IN  FAdd(LocalCoefficient(n), SumOfCoefficients(S \ {n}))

AverageCoefficient ==
    FMul(SumOfCoefficients(Qualifying), Frac(1, Cardinality(Qualifying)))

C25_Clustering ==
    pc = "detected" =>
        LET emitted == PatternsOfType("excessive_clustering")
        IN  /\ \A n \in Qualifying :
                    ~FLess(LocalCoefficient(n), Frac(0, 1))
                    /\ ~FLess(Frac(1, 1), LocalCoefficient(n))
            /\ IF /\ Cardinality(graph.nodes) >= 3
                  /\ Qualifying # {}
                  /\ FLess(Frac(7, 10), AverageCoefficient)
               THEN /\ Len(emitted) = 1
                    /\ Len(emitted[1].affected_references) = Cardinality(graph.nodes)
                    /\ {emitted[1].affected_references[k] :
                            k \in 1..Len(emitted[1].affected_references)} = graph.nodes
                    /\ FEq(emitted[1].suspicion_score,
                           FMin(AverageCoefficient, Frac(1, 1)))
               ELSE emitted = <<>>

(***************************************************************************)
(* C26.  The recommendation list of analyze contains, in this fixed order, *)
(* exactly one entry for each of these conditions that holds and no other  *)
(* entry: self_citation_rate > 0.3; diversity < 0.4; no reference has a    *)
(* year within the last 3 years (year >= current year - 3); at least one   *)
(* detected pattern has suspicion > 0.6.  The list has at most 4 entries.  *)
(* As stated (C26_Recommendations) the third condition also holds when no  *)
(* reference has a year at all; the list has the third entry only when at  *)
(* least one reference has a year and none of the years is within the last *)
(* 3 years (C26_RecommendationsDated).                                     *)
(***************************************************************************)
YearsOfReferences ==
    {references[i].year.v : i \in {j \in 1..Len(references) : TruthyInt(references[j].year)}}

NoRecentYear == \A y \in YearsOfReferences : y < current_year - 3

Entry(condition, kind) == IF condition THEN <<kind>> ELSE <<>>

KindsOfRecommendations ==
    [k \in 1..Len(result.recommendations) |-> result.recommendations[k].kind]

ExpectedRecommendations(third) ==
    Entry(FLess(Frac(3, 10), result.self_citation_rate), "self_citation")
    \o Entry(FloatLess(result.author_citation_diversity, Frac(4, 10)), "diversity")
    \o Entry(third, "recent")
    \o Entry(\E k \in 1..Len(patterns) :
                FloatGreater(patterns[k].suspicion_score, Frac(6, 10)), "suspicious")

C26_Recommendations ==
    pc = "done" =>
        /\ KindsOfRecommendations = ExpectedRecommendations(NoRecentYear)
        /\ Len(result.recommendations) <= 4

C26_RecommendationsDated ==
    pc = "done" =>
        /\ KindsOfRecommendations
                = ExpectedRecommendations(YearsOfReferences # {} /\ NoRecentYear)
        /\ Len(result.recommendations) <= 4

\* All four conditions hold: the four entries, in their order
C26_FourRecommendations ==
    /\ pc = "done"
    /\ YearsOfReferences # {}
    /\ KindsOfRecommendations = <<"self_citation", "diversity", "recent", "suspicious">>

(***************************************************************************)
(* C27.  The edge list of the graph build_graph returns has no self-loop:  *)
(* every edge joins two different reference ids, also when one reference   *)
(* is cited more than once within one context group.                       *)
(***************************************************************************)
C27_NoSelfLoop ==
    GraphBuilt => \A k \in 1..Len(graph.edges) : graph.edges[k][1] # graph.edges[k][2]

(***************************************************************************)
(* C28.  For an empty manuscript (empty text, empty reference list, no     *)
(* author names) analyze returns neutral values throughout: risk_score 0   *)
(* and an empty recommendation list, next to zero counts, no clusters and  *)
(* no suspicious patterns.                                                 *)
(***************************************************************************)
EmptyManuscript ==
    /\ manuscript_text = <<>>
    /\ references = <<>>
    /\ author_names \in {None, Val(<<>>)}

C28_EmptyManuscriptNeutral ==
    (pc = "done" /\ EmptyManuscript) =>
        /\ result.total_citations = 0
        /\ result.unique_citations = 0
        /\ result.self_citations = 0
        /\ result.citation_clusters = <<>>
        /\ result.suspicious_patterns = <<>>
        /\ FEq(result.risk_score, Frac(0, 1))
        /\ result.recommendations = <<>>

(***************************************************************************)
(* C29.  Whenever the suspicious_patterns list of the result is not empty  *)
(* (so that the patterns add to risk_score), the recommendations contain   *)
(* the 'Detected N suspicious citation patterns' entry; in particular a    *)
(* temporal_anomaly pattern (suspicion 0.6) reported as suspicious comes   *)
(* with that recommendation.                                               *)
(***************************************************************************)
C29_SuspiciousIsRecommended ==
    (pc = "done" /\ result.suspicious_patterns # <<>>) =>
        \E k \in 1..Len(result.recommendations) :
            result.recommendations[k].kind = "suspicious"

(***************************************************************************)
(* C30.  When the edge list has no parallel edges and no self-loops (each  *)
(* unordered pair of distinct nodes at most once), the                     *)
(* citation_network_density is at most 1/2, so the '+0.15 if density >     *)
(* 0.7' term of the risk score is never applied: that term contributes     *)
(* only when the edge list has repeated pairs or self-loops.               *)
(***************************************************************************)
SimpleEdges ==
    /\ \A k \in 1..Len(graph.edges) : graph.edges[k][1] # graph.edges[k][2]
    /\ \A i, j \in 1..Len(graph.edges) : i < j => ~SamePair(i, j)

C30_SimpleGraphDensity ==
    (pc = "done" /\ SimpleEdges) =>
        /\ ~FLess(Frac(1, 2), result.citation_network_density)
        /\ FEq(DensityRisk, Frac(0, 1))
        /\ FEq(result.risk_score,
               FMin(Frac(1, 1), FAdd(FAdd(SelfRisk, PatternRisk), DiversityRisk)))

\* Every pair of three nodes joined once: the density is 1/2
C30_CompleteSimpleGraph ==
    /\ pc = "done"
    /\ SimpleEdges
    /\ Cardinality(graph.nodes) = 3
    /\ FEq(result.citation_network_density, Frac(1, 2))

=============================================================================
